---- MODULE Spec2Model ----
(***************************************************************************)
(* Model of the Caddy middleware of the LLM routing proxy (package         *)
(* llm_resolver): the request handler ServeHTTP with its single-flight     *)
(* resolution, the mapping API, the mapping Cache with its on-disk Save,   *)
(* the ProcessCache and buildUpstreamURL.                                  *)
(*                                                                         *)
(* Every request is handled by its own goroutine; a handler is cut into    *)
(* steps at the points where it takes a lock, calls the resolver or makes  *)
(* a system call, so that the other handlers can run in between.           *)
(***************************************************************************)
EXTENDS Integers, Sequences, FiniteSets, TLC

\* ------------------------------------------------------------------ bounds
NumProcs == 3
MaxTime == 10
MaxSnapshot == 3
MaxFrames == 2
MaxQuery == 2

Procs == 1..NumProcs
Inodes == 1..(NumProcs + 2)

\* --------------------------------------------------------------- constants
ProcessCacheTTL == 5
StatusOK == 200
StatusBadRequest == 400
StatusNotFound == 404
StatusInternalServerError == 500
StatusBadGateway == 502
StatusForbidden == 403
StatusMethodNotAllowed == 405

\* ------------------------------------------------------------ basic values
\* A Go pointer or optional value: Nil, or Some(x).
Nil == <<>>
Some(x) == <<x>>

\* Strings that the code inspects character by character are sequences of
\* one-character strings; EmptyStr is "".
EmptyStr == <<>>
WdApp == <<"/", "a">>
WdFrontend == <<"/", "a", "/", "f">>
WdOther == <<"/", "b">>

\* Resolution keys: a hostname, or fmt.Sprintf("%s:%s", origin, service).
\* Hostnames, paths and service names are cut into the pieces the string
\* tests of the code tell apart.
OriginHost == <<"app", ".localhost">>
ServiceName == <<"api">>
HostKey == <<OriginHost>>
CompositeKey(origin, service) == <<origin, ":", service>>
\* The key of a request without a hostname is "", or ":<service>".
EmptyHostKey == <<EmptyStr>>
Keys ==
    {HostKey, CompositeKey(OriginHost, ServiceName), EmptyHostKey,
     CompositeKey(EmptyStr, ServiceName)}
\* The keys the requests to the mapping API name.
ApiKeys == {HostKey, CompositeKey(OriginHost, ServiceName)}
\* encoding/json writes the keys of a map in sorted order.
KeyOrder ==
    <<EmptyHostKey, CompositeKey(EmptyStr, ServiceName), HostKey,
      CompositeKey(OriginHost, ServiceName)>>

Timestamps == {"2025-01-01T00:00:00Z"}

\* What the LLM answers (an LLMResponse that passed validateLLMResponse).
Decisions ==
    { [type |-> "process", target |-> "localhost", port |-> 5173,
       reason |-> "vite", workdir |-> WdApp, commandPattern |-> EmptyStr],
      [type |-> "docker", target |-> "app-web", port |-> 80,
       reason |-> "compose", workdir |-> EmptyStr, commandPattern |-> EmptyStr] }
ResolveErrors == {"API key is not set", "no response from LLM"}

\* Bodies of PUT /_api/mappings/<host>: Nil is a body that is not JSON.
PutBodies ==
    { Nil,
      Some([type |-> "process", target |-> "localhost", port |-> 3000]),
      Some([type |-> "container", target |-> "app-web", port |-> 80]) }
\* The same, and a body with a type the API knows but no target and no
\* port.
AnyPutBodies ==
    PutBodies \cup {Some([type |-> "process", target |-> "", port |-> 0])}

\* Listening processes as the probe reports them.
ProcFrontend == [pid |-> 11, port |-> 5174, workdir |-> WdFrontend,
                 command |-> <<"n">>, args |-> <<"v">>]
ProcApp == [pid |-> 12, port |-> 5180, workdir |-> WdApp,
            command |-> <<"n">>, args |-> <<"d">>]
ProcOther == [pid |-> 13, port |-> 4000, workdir |-> WdOther,
              command |-> <<"p">>, args |-> EmptyStr]
Snapshots == { <<>>, <<ProcOther>>, <<ProcApp, ProcFrontend>> }
\* A process whose workdir is reported with a trailing slash.
WdAppSlash == <<"/", "a", "/">>
ProcSlash == [pid |-> 14, port |-> 3000, workdir |-> WdAppSlash,
              command |-> <<"b">>, args |-> <<"r">>]
ProcPool == {ProcFrontend, ProcApp, ProcOther, ProcSlash}
\* Process identifiers: a workdir and an optional command pattern.
Identifiers ==
    [workdir : {WdApp, WdFrontend, WdAppSlash, EmptyStr},
     commandPattern : {EmptyStr, <<"v">>}]

\* Answers of the container runtime to GetContainerIP.
\* Port mappings of a container, as getContainerDetails lists them.
Published80 == [containerPort |-> 80, hostIP |-> "127.0.0.1", hostPort |-> 32768]
Published8080 ==
    [containerPort |-> 8080, hostIP |-> "127.0.0.1", hostPort |-> 32769]
ContainerDetails ==
    { Nil, Some(<<>>), Some(<<Published80>>), Some(<<Published8080>>),
      Some(<<Published8080, Published80>>) }
ContainerIPAnswers == { [ip |-> "", err |-> TRUE], [ip |-> "", err |-> FALSE],
                        [ip |-> "172.18.0.2", err |-> FALSE] }

NoErr == ""

\* ---------------------------------------------------------- pure functions
\* strings.TrimSuffix(s, "/"): removes one trailing slash, if there is one.
TrimSuffixSlash(s) ==
    IF Len(s) > 0 /\ s[Len(s)] = "/" THEN SubSeq(s, 1, Len(s) - 1) ELSE s

\* strings.HasPrefix
HasPrefix(s, prefix) ==
    Len(s) >= Len(prefix) /\ SubSeq(s, 1, Len(prefix)) = prefix

\* strings.Contains
Contains(s, sub) ==
    \E i \in 0..(Len(s) - Len(sub)) : SubSeq(s, i + 1, i + Len(sub)) = sub

matchesWorkdir(processWorkdir, targetWorkdir) ==
    IF processWorkdir = EmptyStr \/ targetWorkdir = EmptyStr THEN FALSE
    ELSE LET pw == TrimSuffixSlash(processWorkdir)
             tw == TrimSuffixSlash(targetWorkdir)
         IN  \/ pw = tw
             \/ HasPrefix(pw, tw \o <<"/">>)
             \/ HasPrefix(tw, pw \o <<"/">>)

\* The patterns of the model are literal strings, for which a regular
\* expression match and the substring fallback agree.
matchesCommand(proc, pattern) ==
    Contains(proc.command, pattern) \/ Contains(proc.args, pattern)

\* The candidate filter of ResolveProcessPort, in the order of the snapshot.
Candidates(identifier, processes) ==
    SelectSeq(processes,
              LAMBDA proc :
                  /\ matchesWorkdir(proc.workdir, identifier.workdir)
                  /\ \/ identifier.commandPattern = EmptyStr
                     \/ matchesCommand(proc, identifier.commandPattern))

\* Variant: the scan keeps the first candidate.
LowestFromFirst(best, cands, i) == best

\* The scan for the lowest port: best starts as the first candidate and is
\* replaced by every later candidate with a strictly lower port.
RECURSIVE LowestFrom(_, _, _)
LowestFrom(best, cands, i) ==
    IF i > Len(cands) THEN best
    ELSE LowestFrom(IF cands[i].port < best.port THEN cands[i] ELSE best,
                    cands, i + 1)

\* ResolveProcessPort after cache.Get returned processes without an error.
SelectPort(identifier, processes) ==
    LET cands == Candidates(identifier, processes)
    IN  IF Len(cands) = 0 THEN [ok |-> FALSE, port |-> 0]
        ELSE [ok |-> TRUE, port |-> LowestFrom(cands[1], cands, 2).port]

\* The RouteMapping that ResolveTarget and ResolveRelatedService build from
\* the LLM's answer.
MappingOf(response, ts) ==
    [type |-> response.type, target |-> response.target,
     port |-> response.port, createdAt |-> ts, llmReason |-> response.reason,
     processIdentifier |->
         IF response.type = "process" /\ response.workdir # EmptyStr
         THEN Some([workdir |-> response.workdir,
                    commandPattern |-> response.commandPattern])
         ELSE Nil]

\* Variant: PUT forgets the port of the body.
ManualMappingNoPort(body, ts) ==
    [type |-> body.type, target |-> body.target, port |-> 0,
     createdAt |-> ts, llmReason |-> "Manually edited",
     processIdentifier |-> Nil]

\* The RouteMapping that PUT stores.
ManualMapping(body, ts) ==
    [type |-> body.type, target |-> body.target, port |-> body.port,
     createdAt |-> ts, llmReason |-> "Manually edited",
     processIdentifier |-> Nil]

\* encoding/json of a RouteMapping: the members the struct tags name.
EncodeJSON(mapping) ==
    [type |-> mapping.type, target |-> mapping.target, port |-> mapping.port,
     createdAt |-> mapping.createdAt, llmReason |-> mapping.llmReason]

\* json.MarshalIndent(c.mappings): one member per stored key, in the sorted
\* order encoding/json writes the keys of a map.
RECURSIVE MarshalFrom(_, _)
MarshalFrom(ms, i) ==
    IF i > Len(KeyOrder) THEN <<>>
    ELSE LET k == KeyOrder[i]
         IN  (IF ms[k] = Nil THEN <<>>
              ELSE <<[key |-> k, value |-> EncodeJSON(ms[k][1])]>>)
             \o MarshalFrom(ms, i + 1)
Marshal(ms) == MarshalFrom(ms, 1)

\* Content of a file: len is its length (counted in members of the
\* serialization; an empty file has no bytes at all, the serialization of an
\* empty map is not empty), state tells whether the bytes are one complete
\* serialization ("full"), none ("empty"), or the start of one serialization
\* followed by the tail of a longer one ("mixed").
EmptyContent == [state |-> "empty", json |-> <<>>, len |-> 0]
FullContent(json) == [state |-> "full", json |-> json, len |-> Len(json) + 1]
MixedContent(len) == [state |-> "mixed", json |-> <<>>, len |-> len]

\* A write of json at offset 0 into a file that holds content: it replaces
\* the first bytes and leaves the bytes behind them.
WriteAt0(content, json) ==
    IF Len(json) + 1 >= content.len THEN FullContent(json)
    ELSE MixedContent(content.len)

\* ------------------------------------------------- requests, as received
AdmissionSuffix == <<".localhost">>
DebugHost == <<"proxy", ".localhost">>
ExampleHost == <<"example", ".com">>
CaddyCheckPath == <<"/_caddy/check">>
TlsCheckPath == <<"/_tls_check">>
DebugPath == <<"/_debug">>
ApiPrefix == <<"/_api/mappings/">>
ProxyPrefix == <<"/_proxy/">>
FaviconPath == <<"/favicon.ico">>
RobotsPath == <<"/robots.txt">>

\* The Host header: absent, empty, or a host with or without a port.
HostHeaders ==
    { Nil, Some(EmptyStr), Some(OriginHost), Some(OriginHost \o <<":", "8443">>),
      Some(DebugHost), Some(ExampleHost) }
Paths ==
    { <<"/", "src">>, CaddyCheckPath, TlsCheckPath, DebugPath,
      DebugPath \o <<"/", "logs">>, ApiPrefix \o OriginHost, ProxyPrefix,
      ProxyPrefix \o ServiceName, ProxyPrefix \o ServiceName \o <<"/", "users">>,
      ProxyPrefix \o ServiceName \o <<"/", "/", "x", "/", "y">>,
      FaviconPath, RobotsPath }
RequestTargets ==
    {[path |-> path, method |-> "GET"] : path \in Paths}
    \cup {[path |-> ApiPrefix \o OriginHost, method |-> m] :
             m \in {"PUT", "DELETE"}}
\* A pair of the query string: its name, its decoded value, and how it is
\* written: "bare" is `name`, "empty" is `name=`, "plain" is `name=value`.
QueryPairs ==
    { [name |-> "force", value |-> EmptyStr, form |-> "bare"],
      [name |-> "prompt", value |-> EmptyStr, form |-> "empty"],
      [name |-> "prompt", value |-> <<"vite">>, form |-> "plain"],
      [name |-> "import", value |-> EmptyStr, form |-> "bare"],
      [name |-> "domain", value |-> <<"x", ".localhost">>, form |-> "plain"],
      [name |-> "domain", value |-> <<"evil", ".com">>, form |-> "plain"] }
ClientHeaderPool ==
    { [name |-> "Connection", value |-> <<"keep-alive">>],
      [name |-> "Accept-Encoding", value |-> <<"gzip">>],
      [name |-> "Cookie", value |-> <<"sid=1">>] }
UpstreamHeaderPool ==
    { [name |-> "Content-Encoding", value |-> <<"gzip">>],
      [name |-> "Content-Length", value |-> <<"42">>],
      [name |-> "Content-Type", value |-> <<"text/html">>] }

\* The sequences of at most n elements of S.
SeqsUpTo(S, n) == UNION {[1..k -> S] : k \in 0..n}

\* strings.HasSuffix, String.prototype.endsWith
HasSuffix(s, suffix) ==
    /\ Len(s) >= Len(suffix)
    /\ SubSeq(s, Len(s) - Len(suffix) + 1, Len(s)) = suffix
\* strings.Index and strings.LastIndex of a one-piece separator, 0 if the
\* separator does not occur.
Index(s, sep) ==
    IF \E i \in 1..Len(s) : s[i] = sep
    THEN CHOOSE i \in 1..Len(s) :
             s[i] = sep /\ \A j \in 1..(i - 1) : s[j] # sep
    ELSE 0
LastIndex(s, sep) ==
    IF \E i \in 1..Len(s) : s[i] = sep
    THEN CHOOSE i \in 1..Len(s) :
             s[i] = sep /\ \A j \in (i + 1)..Len(s) : s[j] # sep
    ELSE 0
BeforeFirst(s, sep) ==
    IF Index(s, sep) = 0 THEN s ELSE SubSeq(s, 1, Index(s, sep) - 1)

\* extractHostname of the TypeScript server: host.split(":")[0]
tsExtractHostname(host) ==
    IF host = Nil \/ host[1] = EmptyStr
    THEN Nil
    ELSE Some(BeforeFirst(host[1], ":"))

\* URLSearchParams.has and .get, url.Values.Has and .Get
QueryHas(query, name) == \E i \in 1..Len(query) : query[i].name = name
QueryGet(query, name) ==
    IF QueryHas(query, name)
    THEN Some(query[CHOOSE i \in 1..Len(query) :
                        /\ query[i].name = name
                        /\ \A j \in 1..(i - 1) : query[j].name # name].value)
    ELSE Nil

\* url.searchParams.get("domain") || hostname
tsAdmissionDomain(query, hostname) ==
    LET domain == QueryGet(query, "domain")
    IN  IF domain = Nil \/ domain[1] = EmptyStr THEN hostname ELSE domain[1]

\* The query after a change through searchParams: the list is written
\* again in the application/x-www-form-urlencoded form, every pair as
\* name=value.
Reserialized(query) ==
    [i \in 1..Len(query) |->
        [query[i] EXCEPT !.form = IF @ = "bare" THEN "empty" ELSE @]]
SearchParamsDelete(query, names) ==
    LET Kept(pair) == pair.name \notin names
    IN  Reserialized(SelectSeq(query, Kept))
cleanSearch(query) ==
    LET force == QueryHas(query, "force")
        userPrompt == QueryGet(query, "prompt")
    IN  IF force \/ (userPrompt # Nil /\ userPrompt[1] # EmptyStr)
        THEN SearchParamsDelete(query, {"force", "prompt"})
        ELSE query

\* url.pathname.match(/^\/_proxy\/([^/]+)(\/.*)?$/)
proxyMatch(path) ==
    /\ HasPrefix(path, ProxyPrefix)
    /\ BeforeFirst(Tail(path), "/") # EmptyStr
proxyService(path) == BeforeFirst(Tail(path), "/")
proxyRemainingPath(path) ==
    LET rest == Tail(path)
    IN  IF Index(rest, "/") = 0
        THEN <<"/">>
        ELSE SubSeq(rest, Index(rest, "/"), Len(rest))
tsCacheKey(hostname, service) == hostname \o <<":">> \o service

TsKeys ==
    {OriginHost, ExampleHost, tsCacheKey(OriginHost, ServiceName),
     tsCacheKey(ExampleHost, ServiceName)}
tsManualMapping(body) ==
    [type |-> body.type, target |-> body.target, port |-> body.port,
     createdAt |-> "2025-01-01T00:00:00Z", llmReason |-> "Manually edited"]
tsMappingOf(result) ==
    [type |-> result.type, target |-> result.target, port |-> result.port,
     createdAt |-> "2025-01-01T00:00:00Z", llmReason |-> result.reason]
TsEmptyStore == [k \in TsKeys |-> Nil]
TsStores ==
    { TsEmptyStore,
      [k \in TsKeys |->
          Some(tsManualMapping([type |-> "process", target |-> "localhost",
                                port |-> 3000]))] }

\* A string without the slashes it begins with.
RECURSIVE SkipSlashes(_)
SkipSlashes(s) ==
    IF Len(s) > 0 /\ Head(s) = "/" THEN SkipSlashes(Tail(s)) ELSE s

\* new URL(path + search, base): the host and the pathname of the result.
\* A path that begins with "//" is read as a reference with a host of its
\* own: the host is what follows the slashes, up to the next slash, and
\* the pathname is the rest. (No path of the model is made of slashes
\* only, for which the constructor throws.)
UrlResolve(path, baseHost) ==
    IF HasPrefix(path, <<"/", "/">>)
    THEN LET rest == SkipSlashes(path)
         IN  [host |-> BeforeFirst(rest, "/"),
              pathname |-> IF Index(rest, "/") = 0
                           THEN <<"/">>
                           ELSE SubSeq(rest, Index(rest, "/"), Len(rest))]
    ELSE [host |-> baseHost, pathname |-> path]

\* buildTargetUrl: the host of the target, nothing if the container has no
\* address.
buildTargetHost(mapping, ip) ==
    IF mapping.type = "process" THEN Some("127.0.0.1") ELSE ip

\* new Headers(...): names are kept in lower case.
LowerCase(name) ==
    CASE name = "Host" -> "host"
      [] name = "Connection" -> "connection"
      [] name = "Accept-Encoding" -> "accept-encoding"
      [] name = "Cookie" -> "cookie"
      [] name = "Content-Encoding" -> "content-encoding"
      [] name = "Content-Length" -> "content-length"
      [] name = "Content-Type" -> "content-type"
      [] OTHER -> name
Headers(hs) == {[name |-> LowerCase(h.name), value |-> h.value] : h \in hs}
HeadersDelete(hs, name) == {h \in hs : h.name # LowerCase(name)}
\* Variant: the request headers keep Accept-Encoding.
proxyRequestHeadersKeepEncoding(hs) ==
    HeadersDelete(HeadersDelete(Headers(hs), "host"), "connection")
proxyRequestHeaders(hs) ==
    HeadersDelete(HeadersDelete(HeadersDelete(Headers(hs), "host"),
                                "connection"), "accept-encoding")
proxyResponseHeaders(hs) ==
    HeadersDelete(HeadersDelete(Headers(hs), "content-encoding"),
                  "content-length")

\* ------------------------------------------------------------------- state
VARIABLES
    pc,            \* where each handler stands
    req,           \* the request each handler serves
    res,           \* the mapping or error the handler got, and from where:
                   \* the first cache.Get ("cache"), the double-check
                   \* ("recheck") or the resolver ("resolver")
    waitOn,        \* the handler whose single-flight call this one joined
    got,           \* what ProcessCache.Get returned to the handler
    resp,          \* the response written (history, for a GET: seen is the
                   \* last writer of the key when it was read, after tells
                   \* whether that writer had been answered by then; for a
                   \* PUT or DELETE: seen is the handler whose resolver call
                   \* for the key was running when the store was written)
    saveData,      \* Save: the bytes marshalled
    fd,            \* Save: the inode os.WriteFile has open
    saveErr,       \* Save: the error returned
    mappings,      \* Cache.mappings
    flight,        \* resolveGroup: the handler running the call of each key
    fsFile,        \* inode of the mappings file, 0 if it does not exist
    fsTmp,         \* inode of <file>.tmp, 0 if it does not exist
    inode,         \* content of each inode
    pcProcesses,   \* ProcessCache.processes (<<>> is the nil slice)
    pcLastUpdate,  \* ProcessCache.lastUpdate (0 is the zero time)
    now,           \* the wall clock
    osProcesses,   \* environment: what DiscoverLocalProcesses would list
    probeFails,    \* environment: DiscoverLocalProcesses returns an error
    published,     \* environment: the port mappings docker inspect reports
                   \* for the container, Nil if docker inspect fails
    containerIP,   \* environment: answer of GetContainerIP
    diskFails,     \* environment: the disk refuses writes
    resolveCalls,  \* history: resolver calls started, per key
    lastWriter,    \* history: the handler that last wrote each key
    winStart,      \* history: time of the last successful refresh, -1 if none
    winProbes,     \* history: probes started in the TTL window after winStart
    rebind,        \* ResolveProcessPort called on its own: the identifier,
                   \* two snapshots, and the result for each
    ws,            \* one WebSocket relay of the TypeScript server: both
                   \* connections, ws.data.targetWs, and the history of
                   \* frames and closes
    served,        \* one request served by handleRequest of the TypeScript
                   \* server: the request, the mappings, where the handler
                   \* stands and what it sent and answered
    inbound,       \* one request followed through ServeHTTP from its first
                   \* line: the request, its handler, and what ServeHTTP
                   \* derived from it
    call,          \* one function called on its own: its name, its
                   \* arguments and what it returned
    peers,         \* requests for one hostname that handleRequest of the
                   \* TypeScript server serves at the same time: the
                   \* mapping of the hostname in the mappings they share,
                   \* where each handler stands and the mapping it holds,
                   \* and the calls of resolveTarget
    tsConfig       \* config.ts as the resolver server of the Traefik mode
                   \* uses it: mappingsCache (the object it refers to, 0 is
                   \* null), the Mappings objects, the mappings file and
                   \* its temporary file, and the requests being served

procVars == <<pc, req, res, waitOn, got, resp>>
saveVars == <<saveData, fd, saveErr>>
fsVars == <<fsFile, fsTmp, inode>>
storeVars == <<mappings, lastWriter>>
sfVars == <<flight, resolveCalls>>
cacheVars == <<pcProcesses, pcLastUpdate, winStart, winProbes>>
envVars == <<osProcesses, probeFails, published, containerIP, diskFails>>
goVars == <<procVars, saveVars, fsVars, storeVars, sfVars, cacheVars, now,
            envVars>>
soloVars == <<call, peers, tsConfig>>
otherVars == <<rebind, ws, served, inbound, soloVars>>
vars == <<goVars, otherVars>>

NoReq == [kind |-> "idle", key |-> HostKey, force |-> FALSE, body |-> Nil]
NoRes == [val |-> Nil, err |-> NoErr, src |-> "none"]
NoResp == [status |-> 0, text |-> "", json |-> Nil, upstream |-> Nil,
           detail |-> "", seen |-> 0, after |-> FALSE]
NoGot == [called |-> FALSE, processes |-> <<>>, err |-> FALSE, probed |-> FALSE]

EmptyStore == [k \in Keys |-> Nil]

\* The middleware after Provision has loaded the mappings of the file.
ProvisionedWith(loaded) ==
    /\ pc = [p \in Procs |-> "idle"]
    /\ req = [p \in Procs |-> NoReq]
    /\ res = [p \in Procs |-> NoRes]
    /\ waitOn = [p \in Procs |-> 0]
    /\ got = [p \in Procs |-> NoGot]
    /\ resp = [p \in Procs |-> NoResp]
    /\ saveData = [p \in Procs |-> <<>>]
    /\ fd = [p \in Procs |-> 0]
    /\ saveErr = [p \in Procs |-> NoErr]
    /\ mappings = loaded
    /\ flight = [k \in Keys |-> 0]
    /\ fsFile = 0
    /\ fsTmp = 0
    /\ inode = [i \in Inodes |-> EmptyContent]
    /\ pcProcesses = <<>>
    /\ pcLastUpdate = 0
    /\ now = ProcessCacheTTL
    /\ resolveCalls = [k \in Keys |-> 0]
    /\ lastWriter = [k \in Keys |-> 0]
    /\ winStart = -1
    /\ winProbes = 0

\* The middleware after Provision, with no mappings file to load.
Provisioned == ProvisionedWith(EmptyStore)

\* No request has reached handleRequest of the TypeScript server.
NoTs == [stage |-> "none", host |-> Nil, path |-> <<>>, query |-> <<>>,
         method |-> "GET", headers |-> {}, store |-> TsEmptyStore,
         hostname |-> Nil, handler |-> "none", key |-> <<>>,
         force |-> FALSE, cleanSearch |-> <<>>, fwdPath |-> <<>>,
         mapping |-> Nil, sent |-> Nil, upstreamHeaders |-> {},
         fetched |-> FALSE, respHeaders |-> {}, status |-> 0, text |-> "",
         resolverCalls |-> 0, saveFailed |-> FALSE]
notTs == <<goVars, rebind, ws, inbound, soloVars>>
\* The headers of the request as the client sent them.
InboundHeaders(t) ==
    (IF t.host = Nil THEN {} ELSE {[name |-> "Host", value |-> t.host[1]]})
    \cup t.headers
TsAnswer(t, handler, status, text) ==
    [t EXCEPT !.stage = "answered", !.handler = handler, !.status = status,
              !.text = text]
TsErrorText(t) ==
    IF t.handler = "proxy"
    THEN "Second-level proxy error: %v"
    ELSE "Proxy error: %v"
\* No request is followed through ServeHTTP.
NoInbound == [proc |-> 0, host |-> Nil, path |-> <<>>, query |-> <<>>,
              method |-> "GET", hostname |-> EmptyStr, handler |-> "none",
              fwdPath |-> <<>>, before |-> EmptyStore]

\* Nothing has been called yet outside the handlers of the middleware.
NoRebind == [identifier |-> Nil, a |-> <<>>, b |-> <<>>, outA |-> Nil,
             outB |-> Nil]
NoWs == [client |-> "none", upstream |-> "none", targetWs |-> FALSE,
         status |-> 0, accepted |-> FALSE, handshake |-> FALSE,
         sent |-> <<>>, delivered |-> <<>>,
         closeClient |-> Nil, closeUpstream |-> Nil, first |-> "none",
         closedBy |-> "none"]
NoCall == [fn |-> "none", args |-> <<>>, out |-> Nil]
NoPeers == [cold |-> FALSE, store |-> Nil, handlers |-> <<>>,
            resolverCalls |-> 0]
NoTsConfig == [mappingsCache |-> 0, objects |-> <<>>, file |-> Nil,
               tmp |-> Nil, tasks |-> <<>>]
SoloIdle == call = NoCall /\ peers = NoPeers /\ tsConfig = NoTsConfig
OthersIdle ==
    /\ rebind = NoRebind /\ ws = NoWs /\ served = NoTs /\ inbound = NoInbound
    /\ SoloIdle

\* The environment of scenario 4 of the specification: a dev server that
\* moved to another port, a container with a published port.
Init ==
    /\ Provisioned
    /\ OthersIdle
    /\ osProcesses = <<ProcApp, ProcFrontend>>
    /\ probeFails = FALSE
    /\ published = Some(<<Published80>>)
    /\ containerIP = [ip |-> "172.18.0.2", err |-> FALSE]
    /\ diskFails \in BOOLEAN

\* ---------------------------------------------------------------- requests
Forwarded(upstream) ==
    [status |-> StatusOK, text |-> "", json |-> Nil,
     upstream |-> Some(upstream), detail |-> "", seen |-> 0, after |-> FALSE]
ErrorResp(status, text) ==
    [status |-> status, text |-> text, json |-> Nil, upstream |-> Nil,
     detail |-> "", seen |-> 0, after |-> FALSE]

\* The part of ServeHTTP and of handleSecondLevelProxy before
\* resolveGroup.Do: read force, and unless forced look the key up.
Lookup(p, kind, key, force) ==
    LET mapping == IF force THEN Nil ELSE mappings[key]
    IN  /\ req' = [req EXCEPT ![p] = [kind |-> kind, key |-> key,
                                      force |-> force, body |-> Nil]]
        /\ IF mapping = Nil
           THEN /\ pc' = [pc EXCEPT ![p] = "do"]
                /\ res' = res
           ELSE /\ pc' = [pc EXCEPT ![p] = "build"]
                /\ res' = [res EXCEPT ![p] = [val |-> mapping, err |-> NoErr,
                                              src |-> "cache"]]
        /\ UNCHANGED <<waitOn, got, resp, saveVars, fsVars, storeVars, sfVars,
                       cacheVars, now, envVars>>

\* ServeHTTP for a request that is none of the special paths.
ServeHTTP(p) ==
    /\ pc[p] = "idle"
    /\ \E force \in BOOLEAN : Lookup(p, "route", HostKey, force)
    /\ UNCHANGED otherVars

\* handleSecondLevelProxy for /_proxy/<service>/...
handleSecondLevelProxy(p) ==
    /\ pc[p] = "idle"
    /\ \E force \in BOOLEAN :
           Lookup(p, "proxy", CompositeKey(OriginHost, ServiceName), force)
    /\ UNCHANGED otherVars

\* singleflight.Group.Do: join the call of the key if there is one; else
\* register a new call and start the function, which first looks the key
\* up again (the double-check) and calls the resolver unless it found a
\* mapping and the request is not forced. (Registering the call and the
\* double-check are one step: no other handler's step can tell the
\* difference, a join reads only the group and a write only the cache.)
\* Variant: Do never joins a call in progress.
DoJoinsNever(key) == FALSE
DoJoins(key) == flight[key] # 0
\* Variant: the function never looks the key up again.
DoubleCheckHitNever(cached, force) == FALSE
DoubleCheckHit(cached, force) == cached # Nil /\ ~force
Do(p) ==
    /\ pc[p] = "do"
    /\ LET key == req[p].key
           cached == mappings[key]
       IN  IF DoJoins(key)
           THEN /\ waitOn' = [waitOn EXCEPT ![p] = flight[key]]
                /\ pc' = [pc EXCEPT ![p] = "wait"]
                /\ UNCHANGED <<flight, res, resolveCalls>>
           ELSE /\ flight' = [flight EXCEPT ![key] = p]
                /\ waitOn' = waitOn
                /\ IF DoubleCheckHit(cached, req[p].force)
                   THEN /\ res' = [res EXCEPT ![p] = [val |-> cached,
                                       err |-> NoErr, src |-> "recheck"]]
                        /\ pc' = [pc EXCEPT ![p] = "return"]
                        /\ resolveCalls' = resolveCalls
                   ELSE /\ pc' = [pc EXCEPT ![p] = "resolving"]
                        /\ resolveCalls' = [resolveCalls EXCEPT ![key] = @ + 1]
                        /\ res' = res
    /\ UNCHANGED <<req, got, resp, saveVars, fsVars, storeVars, cacheVars, now, envVars>>
    /\ UNCHANGED otherVars

\* Cache.Set
SetMapping(ms, key, mapping, ts) ==
    [ms EXCEPT ![key] =
        Some(IF mapping.createdAt = "" THEN [mapping EXCEPT !.createdAt = ts]
             ELSE mapping)]

\* ResolveTarget / ResolveRelatedService returns a mapping, and the function
\* stores it with m.cache.Set.
ResolveOk(p) ==
    /\ pc[p] = "resolving"
    /\ \E d \in Decisions, ts \in Timestamps :
           /\ res' = [res EXCEPT ![p] = [val |-> Some(MappingOf(d, ts)),
                                         err |-> NoErr, src |-> "resolver"]]
           /\ mappings' = SetMapping(mappings, req[p].key, MappingOf(d, ts), ts)
    /\ lastWriter' = [lastWriter EXCEPT ![req[p].key] = p]
    /\ pc' = [pc EXCEPT ![p] = "save"]
    /\ UNCHANGED <<req, waitOn, got, resp, saveVars, fsVars, sfVars,
                   cacheVars, now, envVars>>
    /\ UNCHANGED otherVars

\* ResolveTarget / ResolveRelatedService returns an error: the function
\* returns it without touching the cache.
ResolveFail(p) ==
    /\ pc[p] = "resolving"
    /\ \E e \in ResolveErrors :
           res' = [res EXCEPT ![p] = [val |-> Nil, err |-> e,
                                      src |-> "resolver"]]
    /\ pc' = [pc EXCEPT ![p] = "return"]
    /\ UNCHANGED <<req, waitOn, got, resp, saveVars, fsVars, storeVars,
                   sfVars, cacheVars, now, envVars>>
    /\ UNCHANGED otherVars

\* The error branch after Do, else on to buildUpstreamURL.
AfterDo(p, result) ==
    IF result.err # NoErr
    THEN /\ resp' = [resp EXCEPT ![p] =
                [ErrorResp(StatusBadGateway,
                           IF req[p].kind = "route"
                           THEN "Failed to resolve target: %v"
                           ELSE "Failed to resolve service: %v")
                 EXCEPT !.detail = result.err]]
         /\ pc' = [pc EXCEPT ![p] = "done"]
    ELSE /\ resp' = resp
         /\ pc' = [pc EXCEPT ![p] = "build"]

\* Variant: a call that failed stays registered in the group.
DoReturnsRemembers(p) ==
    /\ pc[p] = "return"
    /\ req[p].kind \in {"route", "proxy"}
    /\ flight' = [flight EXCEPT ![req[p].key] =
                     IF @ = p /\ res[p].err = NoErr THEN 0 ELSE @]
    /\ AfterDo(p, res[p])
    /\ UNCHANGED <<req, res, waitOn, got, saveVars, fsVars, storeVars,
                   resolveCalls, cacheVars, now, envVars>>
    /\ UNCHANGED otherVars
\* The function has returned: doCall deletes the call from the group and
\* releases the waiters, Do returns to the handler that ran it.
DoReturns(p) ==
    /\ pc[p] = "return"
    /\ req[p].kind \in {"route", "proxy"}
    /\ flight' = [flight EXCEPT ![req[p].key] = IF @ = p THEN 0 ELSE @]
    /\ AfterDo(p, res[p])
    /\ UNCHANGED <<req, res, waitOn, got, saveVars, fsVars, storeVars,
                   resolveCalls, cacheVars, now, envVars>>
    /\ UNCHANGED otherVars

\* A handler that joined a call gets the result of that call.
CallFinished(leader) == pc[leader] \in {"build", "refresh", "done"}
\* Variant: a waiter is told that the call failed, not how.
SharedResultOpaque(leader) ==
    [res[leader] EXCEPT !.err = IF @ = NoErr THEN NoErr ELSE "resolution failed"]
SharedResult(leader) == res[leader]
DoShares(p) ==
    /\ pc[p] = "wait"
    /\ CallFinished(waitOn[p])
    /\ res' = [res EXCEPT ![p] = SharedResult(waitOn[p])]
    /\ AfterDo(p, SharedResult(waitOn[p]))
    /\ UNCHANGED <<req, waitOn, got, saveVars, fsVars, storeVars, sfVars,
                   cacheVars, now, envVars>>
    /\ UNCHANGED otherVars

\* --------------------------------------------------------------- Cache.Save
\* Inodes that a name or an open descriptor refers to.
Referenced(file, tmp, fds) == {file, tmp} \cup {fds[q] : q \in Procs}
FreeInode == CHOOSE i \in Inodes :
                 /\ i \notin Referenced(fsFile, fsTmp, fd)
                 /\ \A j \in Inodes : j < i => j \in Referenced(fsFile, fsTmp, fd)
\* The bytes of an inode that nothing refers to any more are gone.
Reclaim(contents, file, tmp, fds) ==
    [i \in Inodes |-> IF i \in Referenced(file, tmp, fds) THEN contents[i]
                      ELSE EmptyContent]

\* After Save: the function of Do goes on to return (a failed Save is only
\* logged), the mapping API goes on to answer.
SaveReturns(p, err) ==
    /\ saveErr' = [saveErr EXCEPT ![p] = err]
    /\ pc' = [pc EXCEPT ![p] = "return"]

\* json.MarshalIndent(c.mappings) under the read lock.
SaveMarshal(p) ==
    /\ pc[p] = "save"
    /\ saveData' = [saveData EXCEPT ![p] = Marshal(mappings)]
    /\ pc' = [pc EXCEPT ![p] = "open"]
    /\ UNCHANGED <<req, res, waitOn, got, resp, fd, saveErr, fsVars,
                   storeVars, sfVars, cacheVars, now, envVars>>
    /\ UNCHANGED otherVars

\* os.MkdirAll or the open of os.WriteFile fails: Save returns the error.
SaveDiskError(p) ==
    /\ pc[p] = "open"
    /\ diskFails
    /\ SaveReturns(p, "disk error")
    /\ saveData' = [saveData EXCEPT ![p] = <<>>]
    /\ UNCHANGED <<req, res, waitOn, got, resp, fd, fsVars, storeVars,
                   sfVars, cacheVars, now, envVars>>
    /\ UNCHANGED otherVars

\* os.WriteFile(tmpFile, ...), first half: open with O_CREATE|O_TRUNC.
SaveOpen(p) ==
    /\ pc[p] = "open"
    /\ ~diskFails
    /\ LET i == IF fsTmp = 0 THEN FreeInode ELSE fsTmp
       IN  /\ fsTmp' = i
           /\ inode' = [inode EXCEPT ![i] = EmptyContent]
           /\ fd' = [fd EXCEPT ![p] = i]
    /\ pc' = [pc EXCEPT ![p] = "write"]
    /\ UNCHANGED <<req, res, waitOn, got, resp, saveData, saveErr, fsFile,
                   storeVars, sfVars, cacheVars, now, envVars>>
    /\ UNCHANGED otherVars

\* os.WriteFile, second half: write the bytes at offset 0 and close.
SaveWrite(p) ==
    /\ pc[p] = "write"
    /\ LET fds == [fd EXCEPT ![p] = 0]
       IN  /\ fd' = fds
           /\ inode' = Reclaim([inode EXCEPT ![fd[p]] =
                                    WriteAt0(inode[fd[p]], saveData[p])],
                               fsFile, fsTmp, fds)
    /\ saveData' = [saveData EXCEPT ![p] = <<>>]
    /\ pc' = [pc EXCEPT ![p] = "rename"]
    /\ UNCHANGED <<req, res, waitOn, got, resp, saveErr, fsFile, fsTmp,
                   storeVars, sfVars, cacheVars, now, envVars>>
    /\ UNCHANGED otherVars

\* os.Rename(tmpFile, filePath): fails if another Save has already renamed
\* the temporary file away.
SaveRename(p) ==
    /\ pc[p] = "rename"
    /\ IF fsTmp = 0
       THEN /\ SaveReturns(p, "no such file")
            /\ UNCHANGED fsVars
       ELSE /\ SaveReturns(p, NoErr)
            /\ fsFile' = fsTmp
            /\ fsTmp' = 0
            /\ inode' = Reclaim(inode, fsTmp, 0, fd)
    /\ UNCHANGED <<req, res, waitOn, got, resp, saveData, fd, storeVars,
                   sfVars, cacheVars, now, envVars>>
    /\ UNCHANGED otherVars

\* Cache.Save from start to end with no step of another handler in between:
\* marshal, write the temporary file, rename it; or a disk error.
SaveAll(p) ==
    /\ pc[p] = "save"
    /\ fsTmp = 0
    /\ IF diskFails
       THEN /\ SaveReturns(p, "disk error")
            /\ UNCHANGED fsVars
       ELSE /\ SaveReturns(p, NoErr)
            /\ fsFile' = FreeInode
            /\ fsTmp' = fsTmp
            /\ inode' = Reclaim([inode EXCEPT ![FreeInode] =
                                     WriteAt0(EmptyContent, Marshal(mappings))],
                                FreeInode, 0, fd)
    /\ UNCHANGED <<req, res, waitOn, got, resp, saveData, fd, storeVars,
                   sfVars, cacheVars, now, envVars>>
    /\ UNCHANGED otherVars

\* -------------------------------------------------------------- mapping API
ValidType(type) == type = "process" \/ type = "docker"

\* handleMappingsAPI, case GET with a hostname
MappingsGet(p, key) ==
    /\ req' = [req EXCEPT ![p] = [kind |-> "get", key |-> key,
                                  force |-> FALSE, body |-> Nil]]
    /\ resp' = [resp EXCEPT ![p] =
           [(IF mappings[key] = Nil
             THEN ErrorResp(StatusNotFound, "Not found")
             ELSE [ErrorResp(StatusOK, "") EXCEPT
                       !.json = Some(EncodeJSON(mappings[key][1]))])
            EXCEPT !.seen = lastWriter[key],
                   !.after = lastWriter[key] # 0
                             /\ pc[lastWriter[key]] = "done"]]
    /\ pc' = [pc EXCEPT ![p] = "done"]
    /\ UNCHANGED <<res, waitOn, got, saveVars, fsVars, storeVars, sfVars,
                   cacheVars, now, envVars>>

\* GET /_api/mappings/<host>
ApiGet(p) ==
    /\ pc[p] = "idle"
    /\ \E key \in ApiKeys : MappingsGet(p, key)
    /\ UNCHANGED otherVars

\* The handler whose resolver call for the key is running, 0 if none.
ResolvingFor(key) ==
    IF flight[key] # 0 /\ pc[flight[key]] = "resolving" THEN flight[key] ELSE 0

\* PUT /_api/mappings/<host>, up to and including m.cache.Set.
MappingsPut(p, key, body, ts) ==
    /\ req' = [req EXCEPT ![p] = [kind |-> "put", key |-> key,
                                  force |-> FALSE, body |-> body]]
    /\ IF body = Nil
       THEN /\ resp' = [resp EXCEPT ![p] =
                           ErrorResp(StatusBadRequest, "Invalid JSON")]
            /\ pc' = [pc EXCEPT ![p] = "done"]
            /\ UNCHANGED storeVars
       ELSE IF ~ValidType(body[1].type)
       THEN /\ resp' = [resp EXCEPT ![p] =
                           ErrorResp(StatusBadRequest, "Invalid type")]
            /\ pc' = [pc EXCEPT ![p] = "done"]
            /\ UNCHANGED storeVars
       ELSE /\ mappings' = SetMapping(mappings, key,
                                      ManualMapping(body[1], ts), ts)
            /\ lastWriter' = [lastWriter EXCEPT ![key] = p]
            /\ pc' = [pc EXCEPT ![p] = "save"]
            /\ resp' = [resp EXCEPT ![p].seen = ResolvingFor(key)]
    /\ UNCHANGED <<res, waitOn, got, saveVars, fsVars, sfVars, cacheVars, now,
                   envVars>>

ApiPut(p) ==
    /\ pc[p] = "idle"
    /\ \E key \in ApiKeys, body \in PutBodies, ts \in Timestamps :
           MappingsPut(p, key, body, ts)
    /\ UNCHANGED otherVars

\* Cache.Delete
DeleteMapping(ms, key) == [ms EXCEPT ![key] = Nil]

\* DELETE /_api/mappings/<host>, up to and including m.cache.Delete.
MappingsDelete(p, key) ==
    /\ req' = [req EXCEPT ![p] = [kind |-> "delete", key |-> key,
                                  force |-> FALSE, body |-> Nil]]
    /\ mappings' = DeleteMapping(mappings, key)
    /\ lastWriter' = [lastWriter EXCEPT ![key] = p]
    /\ pc' = [pc EXCEPT ![p] = "save"]
    /\ resp' = [resp EXCEPT ![p].seen = ResolvingFor(key)]
    /\ UNCHANGED <<res, waitOn, got, saveVars, fsVars, sfVars,
                   cacheVars, now, envVars>>

ApiDelete(p) ==
    /\ pc[p] = "idle"
    /\ \E key \in ApiKeys : MappingsDelete(p, key)
    /\ UNCHANGED otherVars

\* PUT and DELETE after m.cache.Save returned.
ApiSaved(p) ==
    /\ pc[p] = "return"
    /\ req[p].kind \in {"put", "delete"}
    /\ resp' = [resp EXCEPT ![p] =
           [(IF saveErr[p] # NoErr
             THEN ErrorResp(StatusInternalServerError, "Failed to save")
             ELSE ErrorResp(StatusOK, IF req[p].kind = "put" THEN "Updated"
                                      ELSE "Deleted"))
            EXCEPT !.seen = resp[p].seen]]
    /\ pc' = [pc EXCEPT ![p] = "done"]
    /\ UNCHANGED <<req, res, waitOn, got, saveVars, fsVars, storeVars,
                   sfVars, cacheVars, now, envVars>>
    /\ UNCHANGED otherVars

\* ------------------------------------------------------------ ProcessCache
\* What DiscoverLocalProcesses returns now: an error, or a list; a list with
\* no element is the nil slice.
DiscoverLocalProcesses ==
    IF probeFails THEN [ok |-> FALSE, list |-> <<>>]
    ELSE [ok |-> TRUE, list |-> osProcesses]

\* time.Since(c.lastUpdate) < c.ttl && c.processes != nil
Fresh == now - pcLastUpdate < ProcessCacheTTL /\ pcProcesses # <<>>

Cached == [called |-> TRUE, processes |-> pcProcesses, err |-> FALSE,
           probed |-> FALSE]

\* The slow path of ProcessCache.Get once the probe has returned outcome:
\* what Get returns.
GetAfterProbe(outcome) ==
    IF ~outcome.ok
    THEN IF pcProcesses # <<>>
         THEN [called |-> TRUE, processes |-> pcProcesses, err |-> FALSE,
               probed |-> TRUE]
         ELSE [called |-> TRUE, processes |-> <<>>, err |-> TRUE,
               probed |-> TRUE]
    ELSE [called |-> TRUE, processes |-> outcome.list, err |-> FALSE,
          probed |-> TRUE]

\* History: a probe starts now.
InWindow == winStart >= 0 /\ now - winStart < ProcessCacheTTL
CountProbe(outcome) ==
    /\ winProbes' = IF InWindow THEN (IF winProbes < 3 THEN winProbes + 1 ELSE 3)
                    ELSE IF outcome.ok THEN 1 ELSE 0
    /\ winStart' = IF InWindow THEN winStart
                   ELSE IF outcome.ok THEN now ELSE -1

\* ResolveProcessPort, given what cache.Get returned.
ResolveProcessPort(identifier, result) ==
    IF result.err THEN [ok |-> FALSE, port |-> 0]
    ELSE SelectPort(identifier, result.processes)

NoPort == [ok |-> FALSE, port |-> 0]

\* Variant: the first published port of the container, whatever container
\* port it belongs to.
GetContainerHostAddressAnyPort(details, containerPort) ==
    IF details = Nil \/ details[1] = <<>>
    THEN Nil
    ELSE Some(<<details[1][1].hostIP, details[1][1].hostPort>>)
\* GetContainerHostAddress: the first port mapping of the container for the
\* container port, nothing if docker inspect fails or no mapping is for
\* that port.
GetContainerHostAddress(details, containerPort) ==
    IF details = Nil
    THEN Nil
    ELSE LET pms == details[1]
             hits == {i \in 1..Len(pms) : pms[i].containerPort = containerPort}
         IN  IF hits = {}
             THEN Nil
             ELSE LET first == CHOOSE i \in hits : \A j \in hits : i <= j
                  IN  Some(<<pms[first].hostIP, pms[first].hostPort>>)
HostAddress(mapping) == GetContainerHostAddress(published, mapping.port)

\* Variant: a process mapping whose identifier matches nothing is an error.
buildUpstreamURLStrict(mapping, resolved, hostAddress, containerAddr) ==
    IF mapping.type = "process"
    THEN [ok |-> mapping.processIdentifier = Nil \/ resolved.ok,
          upstream |-> <<"127.0.0.1",
                         IF mapping.processIdentifier # Nil /\ resolved.ok
                         THEN resolved.port ELSE mapping.port>>]
    ELSE IF hostAddress # Nil
    THEN [ok |-> TRUE, upstream |-> hostAddress[1]]
    ELSE IF containerAddr.err \/ containerAddr.ip = ""
    THEN [ok |-> FALSE, upstream |-> <<"", 0>>]
    ELSE [ok |-> TRUE, upstream |-> <<containerAddr.ip, mapping.port>>]

\* buildUpstreamURL, given the result of ResolveProcessPort (for a process
\* mapping with an identifier) and the answers of the container runtime.
buildUpstreamURL(mapping, resolved, hostAddress, containerAddr) ==
    IF mapping.type = "process"
    THEN [ok |-> TRUE,
          upstream |-> <<"127.0.0.1",
                         IF mapping.processIdentifier # Nil /\ resolved.ok
                         THEN resolved.port ELSE mapping.port>>]
    ELSE IF hostAddress # Nil
    THEN [ok |-> TRUE, upstream |-> hostAddress[1]]
    ELSE IF containerAddr.err \/ containerAddr.ip = ""
    THEN [ok |-> FALSE, upstream |-> <<"", 0>>]
    ELSE [ok |-> TRUE, upstream |-> <<containerAddr.ip, mapping.port>>]

\* Variant: the handler stores the port it rebound to.
RespondWriteBack(p, built) ==
    /\ resp' = [resp EXCEPT ![p] =
           IF built.ok THEN Forwarded(built.upstream)
           ELSE ErrorResp(StatusBadGateway, "Failed to build upstream")]
    /\ pc' = [pc EXCEPT ![p] = "done"]
    /\ mappings' = IF built.ok /\ res[p].val[1].type = "process"
                   THEN [mappings EXCEPT ![req[p].key] =
                            Some([res[p].val[1] EXCEPT !.port = built.upstream[2]])]
                   ELSE mappings
    /\ UNCHANGED <<lastWriter, fsVars>>

\* The end of ServeHTTP and of handleSecondLevelProxy: 502 if no upstream
\* could be built, else set the upstream and hand over to reverse_proxy.
Respond(p, built) ==
    /\ resp' = [resp EXCEPT ![p] =
           IF built.ok THEN Forwarded(built.upstream)
           ELSE ErrorResp(StatusBadGateway, "Failed to build upstream")]
    /\ pc' = [pc EXCEPT ![p] = "done"]
    /\ UNCHANGED <<storeVars, fsVars>>

\* buildUpstreamURL up to the write lock of ProcessCache.Get: everything
\* but the slow path of Get.
Build(p) ==
    /\ pc[p] = "build"
    /\ LET mapping == res[p].val[1]
           ident == mapping.processIdentifier
       IN  IF mapping.type = "process" /\ ident # Nil
           THEN IF ident[1].workdir = EmptyStr
                THEN /\ Respond(p, buildUpstreamURL(mapping, NoPort,
                                               HostAddress(mapping), containerIP))
                     /\ got' = got
                ELSE IF Fresh
                THEN /\ Respond(p, buildUpstreamURL(mapping,
                                       ResolveProcessPort(ident[1], Cached),
                                       HostAddress(mapping), containerIP))
                     /\ got' = [got EXCEPT ![p] = Cached]
                ELSE /\ pc' = [pc EXCEPT ![p] = "refresh"]
                     /\ UNCHANGED <<resp, got, storeVars, fsVars>>
           ELSE /\ got' = got
                /\ Respond(p, buildUpstreamURL(mapping, NoPort,
                                               HostAddress(mapping),
                                               containerIP))
    /\ UNCHANGED <<req, res, waitOn, saveVars, sfVars, cacheVars, now, envVars>>
    /\ UNCHANGED otherVars

\* The slow path of ProcessCache.Get, under the write lock, and the rest of
\* buildUpstreamURL.
Refresh(p) ==
    /\ pc[p] = "refresh"
    /\ LET mapping == res[p].val[1]
           ident == mapping.processIdentifier[1]
       IN  IF Fresh
           THEN /\ got' = [got EXCEPT ![p] = Cached]
                /\ Respond(p, buildUpstreamURL(mapping,
                                  ResolveProcessPort(ident, Cached),
                                  HostAddress(mapping), containerIP))
                /\ UNCHANGED cacheVars
           ELSE LET outcome == DiscoverLocalProcesses IN
                /\ CountProbe(outcome)
                /\ IF outcome.ok
                   THEN /\ pcProcesses' = outcome.list
                        /\ pcLastUpdate' = now
                   ELSE UNCHANGED <<pcProcesses, pcLastUpdate>>
                /\ got' = [got EXCEPT ![p] = GetAfterProbe(outcome)]
                /\ Respond(p, buildUpstreamURL(mapping,
                                  ResolveProcessPort(ident,
                                                     GetAfterProbe(outcome)),
                                  HostAddress(mapping), containerIP))
    /\ UNCHANGED <<req, res, waitOn, saveVars, sfVars, now, envVars>>
    /\ UNCHANGED otherVars

\* Variant: Invalidate leaves lastUpdate as it is.
InvalidateKeepsLastUpdate ==
    /\ pcLastUpdate # 0
    /\ winStart' = -1
    /\ winProbes' = 0
    /\ UNCHANGED <<procVars, saveVars, fsVars, storeVars, sfVars, pcProcesses,
                   pcLastUpdate, now, envVars>>
    /\ UNCHANGED otherVars
\* ProcessCache.Invalidate
Invalidate ==
    /\ pcLastUpdate # 0
    /\ pcLastUpdate' = 0
    /\ winStart' = -1
    /\ winProbes' = 0
    /\ UNCHANGED <<procVars, saveVars, fsVars, storeVars, sfVars, pcProcesses,
                   now, envVars>>
    /\ UNCHANGED otherVars

\* Time passes.
Tick ==
    /\ \E d \in {1, ProcessCacheTTL - 1} :
           /\ now + d <= MaxTime
           /\ now' = now + d
    /\ UNCHANGED <<procVars, saveVars, fsVars, storeVars, sfVars, cacheVars,
                   envVars>>
    /\ UNCHANGED otherVars

\* The environment changes: processes start and stop, the probe's commands
\* start or stop failing.
EnvChange ==
    /\ \E l \in Snapshots, f \in BOOLEAN :
           /\ f => l = <<>>
           /\ <<l, f>> # <<osProcesses, probeFails>>
           /\ osProcesses' = l
           /\ probeFails' = f
    /\ UNCHANGED <<procVars, saveVars, fsVars, storeVars, sfVars, cacheVars,
                   now, published, containerIP, diskFails>>
    /\ UNCHANGED otherVars

\* A caller of buildUpstreamURL with a mapping it holds.
BuildInputs ==
    {MappingOf(d, ts) : d \in Decisions, ts \in Timestamps}
    \cup {ManualMapping(b[1], ts) : b \in {x \in PutBodies : x # Nil /\ ValidType(x[1].type)},
                                    ts \in Timestamps}
CallBuild(p) ==
    /\ pc[p] = "idle"
    /\ \E mapping \in BuildInputs :
           res' = [res EXCEPT ![p] = [val |-> Some(mapping), err |-> NoErr,
                                      src |-> "caller"]]
    /\ req' = [req EXCEPT ![p] = [NoReq EXCEPT !.kind = "build"]]
    /\ pc' = [pc EXCEPT ![p] = "build"]
    /\ UNCHANGED <<waitOn, got, resp, saveVars, fsVars, storeVars, sfVars,
                   cacheVars, now, envVars>>
    /\ UNCHANGED otherVars

\* ----------------------------------------------------------- specifications
\* ------------------------------------------------- ServeHTTP from the top
\* extractHostname: r.Host without its port; an address in brackets
\* without the brackets.
extractHostname(host) ==
    LET h == IF host = Nil THEN EmptyStr ELSE host[1]
    IN  IF HasPrefix(h, <<"[">>)
        THEN LET ends == {i \in 1..(Len(h) - 1) : h[i] = "]" /\ h[i + 1] = ":"}
                 cut == IF ends = {} THEN h
                        ELSE SubSeq(h, 1, CHOOSE i \in ends :
                                              \A j \in ends : j <= i)
                 open == Tail(cut)
             IN  IF open # <<>> /\ open[Len(open)] = "]"
                 THEN SubSeq(open, 1, Len(open) - 1)
                 ELSE open
        ELSE IF LastIndex(h, ":") # 0
        THEN SubSeq(h, 1, LastIndex(h, ":") - 1)
        ELSE h

\* The special paths of ServeHTTP, in the order the code tests them.
SpecialPath(hostname, path) ==
    IF path = TlsCheckPath THEN "admission"
    ELSE IF HasPrefix(path, ApiPrefix) THEN "api"
    ELSE IF hostname = DebugHost \/ path = DebugPath THEN "debug"
    ELSE IF HasPrefix(path, ProxyPrefix) THEN "proxy"
    ELSE IF path = FaviconPath \/ path = RobotsPath THEN "ignored"
    ELSE "route"

\* Variant: the admission check looks at the hostname only.
AdmissionDomainOfHost(query, hostname) == hostname
\* domain := r.URL.Query().Get("domain"); if domain == "" { domain = hostname }
AdmissionDomain(query, hostname) ==
    LET domain == QueryGet(query, "domain")
    IN  IF domain = Nil \/ domain[1] = EmptyStr THEN hostname ELSE domain[1]

\* A response written by ServeHTTP itself.
Direct(p, status, text) ==
    /\ resp' = [resp EXCEPT ![p] = ErrorResp(status, text)]
    /\ pc' = [pc EXCEPT ![p] = "done"]
    /\ UNCHANGED <<req, res, waitOn, got, saveVars, fsVars, storeVars, sfVars,
                   cacheVars, now, envVars>>

\* The hosts and the queries of the requests followed through ServeHTTP:
\* the store has a key for each hostname, and ServeHTTP reads two names of
\* the query.
DispatchHosts == HostHeaders \ {Some(ExampleHost)}
DispatchPairs == {pair \in QueryPairs : pair.name \in {"force", "domain"}}

\* ServeHTTP from its first line, for any request: the special paths, then
\* the lookup of the hostname.
Dispatch(p) ==
    /\ pc[p] = "idle"
    /\ inbound = NoInbound
    /\ served = NoTs
    /\ \E host \in DispatchHosts, target \in RequestTargets,
          query \in SeqsUpTo(DispatchPairs, MaxQuery) :
         LET hostname == extractHostname(host)
             path == target.path
             handler == SpecialPath(hostname, path)
             force == QueryHas(query, "force")
             rest == Tail(path)
         IN  /\ inbound' =
                   [proc |-> p, host |-> host, path |-> path,
                    query |-> query, method |-> target.method,
                    hostname |-> hostname, handler |-> handler,
                    fwdPath |-> IF handler = "proxy"
                                THEN proxyRemainingPath(path)
                                ELSE path,
                    before |-> mappings]
             /\ CASE handler = "admission" ->
                       IF HasSuffix(AdmissionDomain(query, hostname),
                                    AdmissionSuffix)
                       THEN Direct(p, StatusOK, "OK")
                       ELSE Direct(p, StatusForbidden, "Not allowed")
                  [] handler = "api" ->
                       LET key == <<TrimSuffixSlash(rest)>>
                       IN  CASE target.method = "GET" -> MappingsGet(p, key)
                             [] target.method = "PUT" ->
                                  \E body \in AnyPutBodies,
                                     ts \in Timestamps :
                                      MappingsPut(p, key, body, ts)
                             [] target.method = "DELETE" ->
                                  MappingsDelete(p, key)
                             [] OTHER ->
                                  Direct(p, StatusMethodNotAllowed,
                                         "Method not allowed")
                  [] handler = "debug" -> Direct(p, StatusOK, "")
                  [] handler = "proxy" ->
                       IF proxyService(path) = EmptyStr
                       THEN Direct(p, StatusBadRequest, "Invalid proxy path")
                       ELSE Lookup(p, "proxy",
                                   CompositeKey(hostname, proxyService(path)),
                                   force)
                  [] handler = "ignored" -> Direct(p, StatusNotFound, "")
                  [] OTHER -> Lookup(p, "route", <<hostname>>, force)
    /\ UNCHANGED <<rebind, ws, served, soloVars>>

\* Spec: the handlers of the middleware, any three requests at a time, in
\* one fixed environment and with each Save running without interruption.
Next ==
    \E p \in Procs :
        \/ ServeHTTP(p)
        \/ handleSecondLevelProxy(p)
        \/ Do(p)
        \/ ResolveOk(p)
        \/ ResolveFail(p)
        \/ DoReturns(p)
        \/ DoShares(p)
        \/ SaveAll(p)
        \/ ApiGet(p)
        \/ ApiPut(p)
        \/ ApiDelete(p)
        \/ ApiSaved(p)
        \/ Build(p)
        \/ Refresh(p)

Spec == Init /\ [][Next]_vars

\* SpecSave: the writers of the Cache with Save cut at its system calls.
NextSave ==
    \E p \in Procs :
        \/ ApiPut(p)
        \/ ApiDelete(p)
        \/ ApiSaved(p)
        \/ SaveMarshal(p)
        \/ SaveDiskError(p)
        \/ SaveOpen(p)
        \/ SaveWrite(p)
        \/ SaveRename(p)

SpecSave == Init /\ [][NextSave]_vars

\* SpecCache: callers of buildUpstreamURL and of the ProcessCache while time
\* passes and the environment changes.
InitCache ==
    /\ Provisioned
    /\ OthersIdle
    /\ osProcesses = <<>>
    /\ probeFails \in BOOLEAN
    /\ published = Nil
    /\ containerIP \in ContainerIPAnswers
    /\ diskFails = FALSE

NextCache ==
    \/ \E p \in Procs :
           \/ CallBuild(p)
           \/ Build(p)
           \/ Refresh(p)
    \/ Invalidate
    \/ Tick
    \/ EnvChange

SpecCache == InitCache /\ [][NextCache]_vars

\* SpecDocker: callers of buildUpstreamURL with every answer of the
\* container runtime.
InitDocker ==
    /\ Provisioned
    /\ OthersIdle
    /\ osProcesses = <<ProcApp>>
    /\ probeFails = FALSE
    /\ published \in ContainerDetails
    /\ containerIP \in ContainerIPAnswers
    /\ diskFails = FALSE

NextDocker ==
    \E p \in Procs :
        \/ CallBuild(p)
        \/ Build(p)
        \/ Refresh(p)

SpecDocker == InitDocker /\ [][NextDocker]_vars

\* SpecPort: ResolveProcessPort called with one identifier on two snapshots
\* the ProcessCache hands it.
GotSnapshot(processes) ==
    [called |-> TRUE, processes |-> processes, err |-> FALSE, probed |-> FALSE]
QuietEnv ==
    /\ osProcesses = <<>>
    /\ probeFails = FALSE
    /\ published = Nil
    /\ containerIP = [ip |-> "", err |-> TRUE]
    /\ diskFails = FALSE
InitPort ==
    /\ Provisioned
    /\ QuietEnv
    /\ ws = NoWs
    /\ served = NoTs
    /\ inbound = NoInbound
    /\ SoloIdle
    /\ \E identifier \in Identifiers,
          a \in SeqsUpTo(ProcPool, MaxSnapshot),
          b \in SeqsUpTo(ProcPool, MaxSnapshot) :
           rebind = [NoRebind EXCEPT !.identifier = Some(identifier),
                                     !.a = a, !.b = b]

CallResolveProcessPort ==
    /\ rebind.identifier # Nil
    /\ rebind.outA = Nil
    /\ rebind' = [rebind EXCEPT
           !.outA = Some(ResolveProcessPort(rebind.identifier[1],
                                            GotSnapshot(rebind.a))),
           !.outB = Some(ResolveProcessPort(rebind.identifier[1],
                                            GotSnapshot(rebind.b)))]
    /\ UNCHANGED <<goVars, ws, served, inbound, soloVars>>

NextPort == CallResolveProcessPort

SpecPort == InitPort /\ [][NextPort]_vars

\* SpecWs: one WebSocket relay of the TypeScript server. Every callback of
\* websocketHandler and of the upstream WebSocket runs to its end on the
\* event loop, so each is one step.
Frames == [kind : {"text", "binary"}, payload : {"a", "b"}]
Closes == {[code |-> 1000, reason |-> "done"],
           [code |-> 1001, reason |-> "going away"]}
TargetErrorClose == [code |-> 1011, reason |-> "Target WebSocket error"]

\* ws.close(code, reason) on the client connection.
CloseClient(w, close) ==
    IF w.client = "open"
    THEN [w EXCEPT !.client = "closed", !.closeClient = Some(close)]
    ELSE w

\* The guard of message, close and error of websocketHandler.
TargetOpen(w) == w.targetWs /\ w.upstream = "open"

\* fetch for a request with "Upgrade: websocket": handleWebSocketUpgrade
\* resolves the target, server.upgrade accepts the client, and open starts
\* to connect to the target.
WsUpgrade ==
    /\ ws.client = "none"
    /\ \E resolved \in BOOLEAN, success \in BOOLEAN :
           ws' = IF ~resolved
                 THEN [ws EXCEPT !.client = "refused",
                                 !.status = StatusBadGateway]
                 ELSE IF ~success
                 THEN [ws EXCEPT !.client = "refused",
                                 !.status = StatusInternalServerError]
                 ELSE [ws EXCEPT !.client = "open", !.accepted = TRUE,
                                 !.upstream = "connecting"]
    /\ UNCHANGED <<goVars, rebind, served, inbound, soloVars>>

\* targetWs.onopen: the handshake with the target succeeded.
TargetOnOpen ==
    /\ ws.upstream = "connecting"
    /\ ws' = [ws EXCEPT !.upstream = "open", !.handshake = TRUE,
                        !.targetWs = TRUE]
    /\ UNCHANGED <<goVars, rebind, served, inbound, soloVars>>

\* targetWs.onerror, followed by targetWs.onclose: the handshake failed.
TargetOnError ==
    /\ ws.upstream = "connecting"
    /\ ws' = CloseClient([ws EXCEPT !.upstream = "failed"], TargetErrorClose)
    /\ UNCHANGED <<goVars, rebind, served, inbound, soloVars>>

\* targetWs.onclose: the target closed an open connection.
TargetOnClose ==
    /\ ws.upstream = "open"
    /\ \E close \in Closes :
           ws' = CloseClient(
                     [ws EXCEPT !.upstream = "closed",
                                !.closeUpstream = Some(close),
                                !.closedBy = "target",
                                !.first = IF @ = "none" THEN "upstream" ELSE @],
                     close)
    /\ UNCHANGED <<goVars, rebind, served, inbound, soloVars>>

\* websocketHandler.message: the client sent a frame.
WsMessage ==
    /\ ws.client = "open"
    /\ Len(ws.sent) < MaxFrames
    /\ \E frame \in Frames :
           ws' = [ws EXCEPT !.sent = Append(@, frame),
                            !.delivered = IF TargetOpen(ws)
                                          THEN Append(@, frame) ELSE @]
    /\ UNCHANGED <<goVars, rebind, served, inbound, soloVars>>

\* websocketHandler.close: the client closed.
WsClose ==
    /\ ws.client = "open"
    /\ \E close \in Closes :
           ws' = [ws EXCEPT
                     !.client = "closed",
                     !.closeClient = Some(close),
                     !.first = IF @ = "none" THEN "client" ELSE @,
                     !.upstream = IF TargetOpen(ws) THEN "closed" ELSE @,
                     !.closeUpstream = IF TargetOpen(ws) THEN Some(close)
                                       ELSE @,
                     !.closedBy = IF TargetOpen(ws) THEN "relay" ELSE @]
    /\ UNCHANGED <<goVars, rebind, served, inbound, soloVars>>

InitWs ==
    /\ Provisioned
    /\ QuietEnv
    /\ OthersIdle

NextWs ==
    \/ WsUpgrade
    \/ TargetOnOpen
    \/ TargetOnError
    \/ TargetOnClose
    \/ WsMessage
    \/ WsClose

\* A handshake with the target that has started ends, one way or the other.
SpecWs ==
    /\ InitWs
    /\ [][NextWs]_vars
    /\ WF_vars(TargetOnOpen \/ TargetOnError)

\* SpecTs: one request served by handleRequest of the TypeScript server,
\* from the first line to the response. Every await of the handler is
\* the end of a step.
TsHandleRequest ==
    /\ served.stage = "received"
    /\ LET hostname == tsExtractHostname(served.host)
           t == [served EXCEPT !.hostname = hostname]
       IN  IF hostname = Nil \/ hostname = Some(EmptyStr)
           THEN served' = TsAnswer(t, "reject", StatusBadRequest,
                               "Missing Host header")
           ELSE IF served.path = CaddyCheckPath
           THEN served' = IF HasSuffix(tsAdmissionDomain(served.query, hostname[1]),
                                   AdmissionSuffix)
                      THEN TsAnswer(t, "admission", StatusOK, "OK")
                      ELSE TsAnswer(t, "admission", StatusForbidden,
                                    "Not allowed")
           ELSE IF hostname[1] = DebugHost \/ HasPrefix(served.path, DebugPath)
           THEN served' = TsAnswer(t, "debug", StatusOK, "")
           ELSE IF HasPrefix(served.path, ApiPrefix)
           THEN LET key == SubSeq(served.path, Len(ApiPrefix) + 1, Len(served.path))
                IN  IF served.method = "DELETE"
                    THEN served' = [TsAnswer(t, "api", StatusOK, "Deleted")
                                EXCEPT !.store[key] = Nil]
                    ELSE IF served.method = "PUT"
                    THEN \E body \in PutBodies :
                           served' = IF body = Nil
                                 THEN TsAnswer(t, "api", StatusBadRequest,
                                               "Invalid JSON")
                                 ELSE IF ~ValidType(body[1].type)
                                 THEN TsAnswer(t, "api", StatusBadRequest,
                                               "Invalid type")
                                 ELSE [TsAnswer(t, "api", StatusOK, "Updated")
                                       EXCEPT !.store[key] =
                                         Some(tsManualMapping(body[1]))]
                    ELSE served' = TsAnswer(t, "api", StatusMethodNotAllowed,
                                        "Method not allowed")
           ELSE IF proxyMatch(served.path)
           THEN served' = [t EXCEPT
                          !.stage = "lookup", !.handler = "proxy",
                          !.key = tsCacheKey(hostname[1],
                                             proxyService(served.path)),
                          !.force = QueryHas(served.query, "force"),
                          !.cleanSearch = cleanSearch(served.query),
                          !.fwdPath = proxyRemainingPath(served.path)]
           ELSE IF served.path = FaviconPath \/ served.path = RobotsPath
           THEN served' = TsAnswer(t, "ignored", StatusNotFound, "")
           ELSE served' = [t EXCEPT
                          !.stage = "lookup", !.handler = "route",
                          !.key = hostname[1],
                          !.force = QueryHas(served.query, "force"),
                          !.cleanSearch = cleanSearch(served.query),
                          !.fwdPath = served.path]
    /\ UNCHANGED notTs

\* getMapping of the key: a mapping found is used unless force is given.
TsGetMapping ==
    /\ served.stage = "lookup"
    /\ served' = IF served.store[served.key] = Nil \/ served.force
             THEN [served EXCEPT !.stage = "resolve"]
             ELSE [served EXCEPT !.stage = "build", !.mapping = served.store[served.key]]
    /\ UNCHANGED notTs

\* resolveTarget or resolveRelatedService, then setMapping; a resolver that
\* throws is answered 502 by the catch of the handler, and so is a
\* setMapping that throws: it has put the mapping into the mappings in
\* memory, and Bun.write of saveMappings fails.
TsResolve ==
    /\ served.stage = "resolve"
    /\ \/ \E result \in Decisions :
            LET mapping == tsMappingOf(result)
            IN  served' = [served EXCEPT !.stage = "build",
                                 !.mapping = Some(mapping),
                                 !.store[served.key] = Some(mapping),
                                 !.resolverCalls = @ + 1]
       \/ \E result \in Decisions :
            served' = [TsAnswer(served, served.handler, StatusBadGateway,
                                TsErrorText(served))
                       EXCEPT !.store[served.key] = Some(tsMappingOf(result)),
                              !.resolverCalls = @ + 1,
                              !.saveFailed = TRUE]
       \/ served' = [TsAnswer(served, served.handler, StatusBadGateway, TsErrorText(served))
                 EXCEPT !.resolverCalls = @ + 1]
    /\ UNCHANGED notTs

\* The URL the handler builds from the path to forward and the clean
\* query (new URL(... , url.origin)), buildTargetUrl, which builds the
\* target from the pathname of that URL, and the part of proxyRequest
\* before fetch: the request the proxy sends. getContainerIp answers an
\* address or nothing.
TsSend ==
    /\ served.stage = "build"
    /\ \E ip \in {Nil, Some("172.17.0.2")} :
         LET host == buildTargetHost(served.mapping[1], ip)
             proxyUrl == UrlResolve(served.fwdPath, served.hostname[1])
             targetUrl == UrlResolve(proxyUrl.pathname,
                                     IF host = Nil THEN "" ELSE host[1])
         IN  served' = IF host = Nil
                   THEN TsAnswer(served, served.handler, StatusBadGateway,
                                 TsErrorText(served))
                   ELSE [served EXCEPT
                           !.stage = "fetch",
                           !.sent = Some([host |-> targetUrl.host,
                                          port |-> served.mapping[1].port,
                                          path |-> targetUrl.pathname,
                                          query |-> served.cleanSearch,
                                          method |-> served.method,
                                          headers |->
                                            proxyRequestHeaders(
                                                InboundHeaders(served))])]
    /\ UNCHANGED notTs

\* The part of proxyRequest after fetch: the upstream answers, or the
\* connection fails and the handler answers 502.
TsFetch ==
    /\ served.stage = "fetch"
    /\ \/ \E hs \in SUBSET UpstreamHeaderPool :
            served' = [TsAnswer(served, served.handler, StatusOK, "") EXCEPT
                     !.upstreamHeaders = Headers(hs),
                     !.fetched = TRUE,
                     !.respHeaders = proxyResponseHeaders(Headers(hs))]
       \/ served' = TsAnswer(served, served.handler, StatusBadGateway, TsErrorText(served))
    /\ UNCHANGED notTs

InitTs ==
    /\ Provisioned
    /\ QuietEnv
    /\ rebind = NoRebind
    /\ ws = NoWs
    /\ inbound = NoInbound
    /\ SoloIdle
    /\ \E host \in HostHeaders, target \in RequestTargets,
          query \in SeqsUpTo(QueryPairs, MaxQuery),
          headers \in SUBSET ClientHeaderPool, store \in TsStores :
           served = [NoTs EXCEPT !.stage = "received", !.host = host,
                             !.path = target.path, !.method = target.method,
                             !.query = query, !.headers = headers,
                             !.store = store]

NextTs ==
    \/ TsHandleRequest
    \/ TsGetMapping
    \/ TsResolve
    \/ TsSend
    \/ TsFetch

SpecTs == InitTs /\ [][NextTs]_vars

\* SpecHttp: one request, to the middleware or to the TypeScript server,
\* followed from the first line of its handler to the response.
LoadedStores ==
    { EmptyStore,
      [EmptyStore EXCEPT ![HostKey] =
          Some(ManualMapping([type |-> "docker", target |-> "app-web",
                              port |-> 80], "2025-01-01T00:00:00Z"))] }
InitDispatch ==
    /\ \E loaded \in LoadedStores : ProvisionedWith(loaded)
    /\ OthersIdle
    /\ osProcesses = <<ProcApp, ProcFrontend>>
    /\ probeFails = FALSE
    /\ published = Some(<<Published80>>)
    /\ containerIP = [ip |-> "172.18.0.2", err |-> FALSE]
    /\ diskFails = FALSE

InitHttp == InitDispatch \/ InitTs

NextDispatch ==
    \E p \in Procs :
        \/ Dispatch(p)
        \/ Do(p)
        \/ ResolveOk(p)
        \/ ResolveFail(p)
        \/ DoReturns(p)
        \/ SaveAll(p)
        \/ ApiSaved(p)
        \/ Build(p)
        \/ Refresh(p)

NextHttp == NextDispatch \/ NextTs

SpecHttp == InitHttp /\ [][NextHttp]_vars

\* ------------------------------------------------------------------ claims
Handlers == {"route", "proxy"}
HasMapping(p) ==
    /\ req[p].kind \in Handlers
    /\ pc[p] \in {"build", "refresh", "done"}
    /\ res[p].val # Nil
Routed(p) == HasMapping(p) /\ pc[p] = "done" /\ resp[p].upstream # Nil

\* C1: while all requests for the hostname are non-forced requests of
\* ServeHTTP (or reads of the mapping API), the store had no mapping for it
\* at the start and no resolver call failed, ResolveTarget is called at most
\* once for the hostname, exactly once as soon as one request has a mapping,
\* and all requests get the same mapping value.
C1Case ==
    \A p \in Procs :
        req[p].key = HostKey =>
            /\ req[p].kind \in {"idle", "route", "get"}
            /\ ~req[p].force
            /\ res[p].err = NoErr
C1Theorem ==
    C1Case =>
        /\ resolveCalls[HostKey] <= 1
        /\ \A p, q \in Procs :
               HasMapping(p) /\ HasMapping(q)
               /\ req[p].key = HostKey /\ req[q].key = HostKey
                   => res[p].val = res[q].val
        /\ (\E p \in Procs : HasMapping(p) /\ req[p].key = HostKey)
               => resolveCalls[HostKey] = 1
\* Three concurrent requests for the hostname, all routed, one of which
\* waited for the call of another.
C1Witness ==
    /\ C1Case
    /\ \A p \in Procs : Routed(p) /\ req[p].key = HostKey
    /\ \E p \in Procs : waitOn[p] # 0

\* C2: at every moment and for every key (a hostname or <origin>:<service>)
\* at most one resolver call is in progress, whatever the mix of forced and
\* non-forced requests.
C2Theorem ==
    \A k \in Keys :
        Cardinality({p \in Procs : pc[p] = "resolving" /\ req[p].key = k}) <= 1
\* A resolver call in progress for a key while a request of the other kind
\* (forced / non-forced) for the same key waits for it.
C2Witness ==
    \E p, q \in Procs :
        /\ pc[p] = "resolving"
        /\ pc[q] = "wait" /\ waitOn[q] = p
        /\ req[q].key = req[p].key
        /\ req[q].force # req[p].force

\* C3: when the resolver call for a key fails, the request that ran it and
\* every request that waited on it are answered 502 with that same error,
\* and no step of a request that carries the error changes the MappingStore
\* or the mappings file.
C3Answered ==
    \A p \in Procs :
        /\ (req[p].kind \in Handlers /\ pc[p] = "done" /\ res[p].err # NoErr)
               => /\ resp[p].status = StatusBadGateway
                  /\ resp[p].detail = res[p].err
                  /\ resp[p].upstream = Nil
        /\ (waitOn[p] # 0 /\ pc[p] \in {"build", "refresh", "done"})
               => res[p].err = res[waitOn[p]].err
C3Untouched ==
    \A p \in Procs :
        (pc'[p] # pc[p] /\ res'[p].err # NoErr)
            => UNCHANGED <<mappings, fsFile, fsTmp, inode>>
C3Theorem == [](C3Answered) /\ [][C3Untouched]_vars
\* A request that waited on a failed call has been answered 502, and so has
\* the request that ran the call.
C3Witness ==
    \E p \in Procs :
        /\ waitOn[p] # 0
        /\ pc[p] = "done" /\ pc[waitOn[p]] = "done"
        /\ resp[p].status = StatusBadGateway
        /\ resp[waitOn[p]].status = StatusBadGateway
        /\ res[p].err # NoErr

\* C4 (as stated): once every mutation of the Cache (resolution, PUT,
\* DELETE) has completed and every Save returned no error, the mappings file
\* holds the serialization of the in-memory map.
Quiescent == \A p \in Procs : pc[p] \in {"idle", "done"}
C4Claim ==
    (/\ Quiescent
     /\ \A p \in Procs : saveErr[p] = NoErr
     /\ \E p \in Procs : lastWriter[req[p].key] = p)
        => /\ fsFile # 0
           /\ inode[fsFile] = FullContent(Marshal(mappings))

\* C5 (as stated): at any point of a Save, after the in-memory update and
\* before its rename has completed, the mappings file (if a Save has ever
\* completed) holds one complete serialization, never a truncated or partial
\* one.
SaveInProgress(p) == pc[p] \in {"save", "open", "write", "rename"}
C5Claim ==
    (\E p \in Procs : SaveInProgress(p))
        => (fsFile = 0 \/ inode[fsFile].state = "full")

\* C6: a GET of a key whose last write was a PUT that had been answered 200
\* returns 200 with the type, target and port of the PUT's body, the given
\* rationale and a timestamp; a GET of a key whose last write was a DELETE
\* that had been answered 200 returns 404.
C6Reads ==
    {p \in Procs : /\ req[p].kind = "get" /\ pc[p] = "done"
                   /\ resp[p].seen # 0 /\ resp[p].after
                   /\ req[resp[p].seen].kind \in {"put", "delete"}
                   /\ req[resp[p].seen].key = req[p].key
                   /\ resp[resp[p].seen].status = StatusOK}
C6Holds(rationale) ==
    \A p \in C6Reads :
        LET w == resp[p].seen
        IN  IF req[w].kind = "put"
            THEN /\ resp[p].status = StatusOK
                 /\ resp[p].json # Nil
                 /\ resp[p].json[1].type = req[w].body[1].type
                 /\ resp[p].json[1].target = req[w].body[1].target
                 /\ resp[p].json[1].port = req[w].body[1].port
                 /\ resp[p].json[1].llmReason = rationale
                 /\ resp[p].json[1].createdAt # ""
            ELSE resp[p].status = StatusNotFound
C7Claim == winProbes <= 1

\* C8 (as stated): the mapping a forced request uses is the result of a
\* resolver call, never one read from the MappingStore.
C8Claim ==
    \A p \in Procs :
        (HasMapping(p) /\ req[p].force) => res[p].src = "resolver"

\* C9: no step of a non-forced request that found a stored mapping at its
\* first lookup changes the MappingStore or the mappings file, even when
\* rebinding routes it to another port than the stored one.
C9Untouched ==
    \A p \in Procs :
        (pc'[p] # pc[p] /\ res'[p].src = "cache")
            => UNCHANGED <<mappings, fsFile, fsTmp, inode>>
C9Theorem == [][C9Untouched]_vars
\* A request served from the store and routed to another port than the
\* stored one, which the store still holds.
C9Witness ==
    \E p \in Procs :
        /\ Routed(p) /\ res[p].src = "cache" /\ ~req[p].force
        /\ res[p].val[1].type = "process"
        /\ resp[p].upstream[1][2] # res[p].val[1].port
        /\ mappings[req[p].key] = res[p].val

\* C10: for a process mapping buildUpstreamURL never fails; the upstream is
\* 127.0.0.1 with the port of ResolveProcessPort when the mapping has an
\* identifier and rebinding succeeds, with the stored port otherwise.
C10Theorem ==
    \A p \in Procs :
        (req[p].kind = "build" /\ pc[p] = "done"
         /\ res[p].val[1].type = "process")
            => LET mapping == res[p].val[1]
                   ident == mapping.processIdentifier
                   rebound == IF ident # Nil /\ got[p].called
                              THEN ResolveProcessPort(ident[1], got[p])
                              ELSE NoPort
               IN  /\ resp[p].status = StatusOK
                   /\ resp[p].upstream =
                          Some(<<"127.0.0.1",
                                 IF rebound.ok THEN rebound.port
                                 ELSE mapping.port>>)
\* One caller was rebound to a running process, another fell back to the
\* stored port because nothing matched.
C10Witness ==
    \E p, q \in Procs :
        /\ req[p].kind = "build" /\ pc[p] = "done"
        /\ req[q].kind = "build" /\ pc[q] = "done"
        /\ res[p].val[1].processIdentifier # Nil
        /\ res[q].val[1].processIdentifier # Nil
        /\ got[p].called /\ got[q].called
        /\ resp[p].upstream[1][2] # res[p].val[1].port
        /\ resp[q].upstream[1][2] = res[q].val[1].port

\* C11: ResolveProcessPort returns the lowest port among the records of the
\* snapshot whose workdir matches the identifier (and whose command or args
\* match the command pattern when there is one), fails if and only if no
\* record matches, and gives the same result for two snapshots with the
\* same set of matching records, whatever their order.
Matches(identifier, proc) ==
    /\ matchesWorkdir(proc.workdir, identifier.workdir)
    /\ identifier.commandPattern # EmptyStr
           => matchesCommand(proc, identifier.commandPattern)
Matching(identifier, processes) ==
    {processes[i] : i \in {j \in DOMAIN processes :
                               Matches(identifier, processes[j])}}
C11Theorem ==
    rebind.outA # Nil =>
        LET identifier == rebind.identifier[1]
            ma == Matching(identifier, rebind.a)
            mb == Matching(identifier, rebind.b)
            ra == rebind.outA[1]
            rb == rebind.outB[1]
        IN  /\ ra.ok <=> ma # {}
            /\ ra.ok => /\ \E m \in ma : m.port = ra.port
                        /\ \A m \in ma : ra.port <= m.port
            /\ ma = mb => ra = rb
\* Two different orders of the same records, several of which match, the
\* first match not being the one with the lowest port.
C11Witness ==
    /\ rebind.outA # Nil
    /\ rebind.a # rebind.b
    /\ Cardinality(Matching(rebind.identifier[1], rebind.a)) >= 2
    /\ Matching(rebind.identifier[1], rebind.a)
           = Matching(rebind.identifier[1], rebind.b)
    /\ rebind.outA[1].ok
    /\ Candidates(rebind.identifier[1], rebind.a)[1].port
           # rebind.outA[1].port

\* C12 (as stated): the client's upgrade is accepted only after the
\* handshake with the upstream has succeeded.
C12Claim == ws.accepted => ws.handshake

\* C13 (as stated): once one side of the relay has closed, the other side is
\* eventually closed, and with the same code and reason when it is the relay
\* that closes it (an upstream whose handshake failed, or that closed on its
\* own in the meantime, counts as closed).
C13Claim ==
    /\ (ws.first = "client")
           ~> \/ ws.upstream = "failed"
              \/ ws.upstream = "closed" /\ ws.closedBy = "target"
              \/ ws.upstream = "closed" /\ ws.closeUpstream = ws.closeClient
    /\ (ws.first = "upstream")
           ~> (ws.client = "closed" /\ ws.closeClient = ws.closeUpstream)

\* C14 (as stated): the frames delivered to the upstream are the frames the
\* client sent after its upgrade was accepted: same order, same kind, same
\* payload, none dropped.
C14Claim == ws.delivered = ws.sent

\* C15: every request proxyRequest sends upstream carries none of the
\* client's Host, Connection and Accept-Encoding headers, and every
\* response it returns to the client carries no Content-Encoding and no
\* Content-Length of the upstream response.
NotForwarded == {"host", "connection", "accept-encoding"}
NotReturned == {"content-encoding", "content-length"}
C15Theorem ==
    /\ served.sent # Nil =>
           \A h \in served.sent[1].headers : LowerCase(h.name) \notin NotForwarded
    /\ served.fetched =>
           \A h \in served.respHeaders : LowerCase(h.name) \notin NotReturned
\* A request with all three headers and a cookie was forwarded without the
\* three and with the cookie; the upstream response had both headers and a
\* content type, and the client got the content type only.
C15Witness ==
    /\ served.fetched
    /\ served.host # Nil
    /\ served.headers = ClientHeaderPool
    /\ served.sent[1].headers = {[name |-> "cookie", value |-> <<"sid=1">>]}
    /\ served.upstreamHeaders = Headers(UpstreamHeaderPool)
    /\ served.respHeaders =
           {[name |-> "content-type", value |-> <<"text/html">>]}

\* C16: the query handleRequest sends upstream is the inbound query with
\* every force and prompt pair removed, the other pairs in their order and
\* written as they were, also when force or prompt has an empty value.
C16Expected(query) ==
    LET Kept(pair) == pair.name \notin {"force", "prompt"}
    IN  SelectSeq(query, Kept)
C16Claim ==
    served.sent # Nil => served.sent[1].query = C16Expected(served.query)

\* What the admission check is to answer: 200 if the domain parameter, or
\* the hostname when there is no domain parameter, ends with .localhost.
C17Domain(query, hostname) ==
    IF \E i \in 1..Len(query) : query[i].name = "domain"
    THEN query[CHOOSE i \in 1..Len(query) :
                   /\ query[i].name = "domain"
                   /\ \A j \in 1..(i - 1) : query[j].name # "domain"].value
    ELSE hostname
C17Status(query, hostname) ==
    IF HasSuffix(C17Domain(query, hostname), AdmissionSuffix)
    THEN StatusOK
    ELSE StatusForbidden
InboundAdmitted ==
    /\ pc[inbound.proc] = "done"
    /\ resp[inbound.proc].status = C17Status(inbound.query, inbound.hostname)
    /\ \A k \in Keys : resolveCalls[k] = 0
ServedHasHost ==
    /\ served.stage \notin {"none", "received"}
    /\ served.hostname \notin {Nil, Some(EmptyStr)}
ServedAdmitted ==
    /\ served.stage = "answered"
    /\ served.status = C17Status(served.query, served.hostname[1])
    /\ served.resolverCalls = 0
ReservedPath(path, admission) ==
    \/ path \in {admission, FaviconPath, RobotsPath}
    \/ HasPrefix(path, DebugPath)
    \/ HasPrefix(path, ApiPrefix)
    \/ HasPrefix(path, ProxyPrefix)
InboundForwardedAsIs ==
    /\ inbound.proc # 0
    /\ resp[inbound.proc].upstream # Nil
    /\ inbound.fwdPath = inbound.path
ServedForwardedAsIs ==
    /\ served.sent # Nil
    /\ served.sent[1].path = served.path
C19Claim ==
    /\ InboundForwardedAsIs => ~ReservedPath(inbound.path, TlsCheckPath)
    /\ ServedForwardedAsIs => ~ReservedPath(served.path, CaddyCheckPath)

\* C20: a request with no hostname is answered 400 at once: no admission
\* reply, no resolver call, no change to the mappings.
C20Claim ==
    /\ (inbound.proc # 0 /\ inbound.hostname = EmptyStr) =>
           /\ pc[inbound.proc] = "done"
           /\ resp[inbound.proc].status = StatusBadRequest
           /\ inbound.handler # "admission"
           /\ \A k \in Keys : resolveCalls[k] = 0
           /\ mappings = inbound.before
    /\ (/\ served.stage \notin {"none", "received"}
        /\ served.hostname \in {Nil, Some(EmptyStr)}) =>
           /\ served.stage = "answered"
           /\ served.status = StatusBadRequest
           /\ served.handler = "reject"
           /\ served.resolverCalls = 0

\* C18: every mapping in the store has a type the proxy knows, a target
\* that is not empty and a port in 1..65535; a PUT whose body breaks one
\* of these is answered 400 and leaves the store as it was.
WellFormed(mapping) ==
    /\ mapping.type \in {"process", "docker"}
    /\ mapping.target # ""
    /\ mapping.port \in 1..65535
C18Claim ==
    /\ \A k \in Keys : mappings[k] # Nil => WellFormed(mappings[k][1])
    /\ \A p \in Procs :
           (/\ req[p].kind = "put"
            /\ req[p].body # Nil
            /\ ~WellFormed(req[p].body[1])) =>
               /\ pc[p] = "done"
               /\ resp[p].status = StatusBadRequest
               /\ mappings = inbound.before

\* C21: when the save fails after the resolver has answered, the request
\* goes on with the resolved mapping and is not answered with an error, and
\* the mapping stays in the mappings in memory.
C21Claim ==
    served.saveFailed =>
        /\ served.store[served.key] # Nil
        /\ served.mapping = served.store[served.key]
        /\ ~(served.stage = "answered" /\ served.sent = Nil
             /\ served.mapping = Nil)

\* C22: for a container mapping buildUpstreamURL gives the published host
\* address of the mapping's container port if there is one, else the
\* container's IP with the stored port, and fails (502) exactly when there
\* is neither.
PublishedFor(port) ==
    IF published = Nil
    THEN {}
    ELSE {<<published[1][i].hostIP, published[1][i].hostPort>> :
              i \in {j \in 1..Len(published[1]) :
                         published[1][j].containerPort = port}}
HasContainerIP == ~containerIP.err /\ containerIP.ip # ""
BuiltForContainer(p) ==
    /\ pc[p] = "done"
    /\ req[p].kind = "build"
    /\ res[p].val[1].type = "docker"
C22Theorem ==
    \A p \in Procs :
        BuiltForContainer(p) =>
            LET port == res[p].val[1].port
            IN  /\ PublishedFor(port) # {} =>
                       /\ resp[p].upstream # Nil
                       /\ resp[p].upstream[1] \in PublishedFor(port)
                /\ (PublishedFor(port) = {} /\ HasContainerIP) =>
                       resp[p].upstream = Some(<<containerIP.ip, port>>)
                /\ resp[p].status = StatusBadGateway
                       <=> (PublishedFor(port) = {} /\ ~HasContainerIP)
\* A container with ports 8080 and 80 published, in that order, and a
\* mapping for port 80: the upstream is the host address of port 80.
C22Witness ==
    \E p \in Procs :
        /\ BuiltForContainer(p)
        /\ published = Some(<<Published8080, Published80>>)
        /\ res[p].val[1].port = 80
        /\ resp[p].upstream = Some(<<"127.0.0.1", 32768>>)


\* ---------------------------------------------------------------------
\* matchesWorkdir called on its own, for every pair of workdirs of up to
\* MaxWorkdir tokens.
MaxWorkdir == 4
WorkdirTokens == {"/", "a", "f"}
Workdirs == SeqsUpTo(WorkdirTokens, MaxWorkdir)

InitWorkdir ==
    /\ Provisioned
    /\ QuietEnv
    /\ rebind = NoRebind /\ ws = NoWs /\ served = NoTs /\ inbound = NoInbound
    /\ peers = NoPeers /\ tsConfig = NoTsConfig
    /\ \E a \in Workdirs, b \in Workdirs :
           call = [fn |-> "matchesWorkdir", args |-> <<a, b>>, out |-> Nil]

CallMatchesWorkdir ==
    /\ call.fn = "matchesWorkdir"
    /\ call.out = Nil
    /\ call' = [call EXCEPT
           !.out = Some(matchesWorkdir(call.args[1], call.args[2]))]
    /\ UNCHANGED <<goVars, rebind, ws, served, inbound, peers, tsConfig>>

NextWorkdir == CallMatchesWorkdir

SpecWorkdir == InitWorkdir /\ [][NextWorkdir]_vars

\* A path without any of its trailing slashes.
RECURSIVE TrimAllSlashes(_)
TrimAllSlashes(s) ==
    IF Len(s) > 0 /\ s[Len(s)] = "/"
    THEN TrimAllSlashes(SubSeq(s, 1, Len(s) - 1))
    ELSE s

\* The match as the specification states it.
StatedMatch(a, b) ==
    LET ta == TrimAllSlashes(a)
        tb == TrimAllSlashes(b)
    IN  \/ ta = tb
        \/ HasPrefix(ta, tb \o <<"/">>)
        \/ HasPrefix(tb, ta \o <<"/">>)

\* C23: for workdirs a and b that are not empty, matchesWorkdir(a, b) is
\* true if and only if, after all trailing slashes of a and of b are
\* trimmed, a equals b, or a starts with b + "/", or b starts with a + "/".
C23Claim ==
    (/\ call.fn = "matchesWorkdir" /\ call.out # Nil
     /\ call.args[1] # EmptyStr /\ call.args[2] # EmptyStr)
        => call.out[1] = StatedMatch(call.args[1], call.args[2])

\* The result does not depend on the order of the two arguments.
MatchesWorkdirSymmetric ==
    (call.fn = "matchesWorkdir" /\ call.out # Nil)
        => call.out[1] = matchesWorkdir(call.args[2], call.args[1])


\* ---------------------------------------------------------------------
\* The slow path of ProcessCache.Get of caller p runs and its probe fails.
ProbeFailsIn(p) ==
    /\ pc[p] = "refresh"
    /\ pc'[p] = "done"
    /\ ~Fresh
    /\ ~DiscoverLocalProcesses.ok

\* C24: when the probe of a refresh fails and a list was stored by an
\* earlier successful refresh (lastUpdate is not the zero time), Get
\* returns the stored list and no error, and the stored list stays as it
\* was.
C24Claim ==
    [][\A p \in Procs :
           (ProbeFailsIn(p) /\ pcLastUpdate # 0) =>
               /\ ~got'[p].err
               /\ got'[p].processes = pcProcesses
               /\ pcProcesses' = pcProcesses]_vars

\* A failed probe leaves the stored list and its time as they were, and
\* Get returns the stored list when it has an element.
FailedProbeKeepsCache ==
    [][\A p \in Procs :
           ProbeFailsIn(p) =>
               /\ pcProcesses' = pcProcesses
               /\ pcLastUpdate' = pcLastUpdate
               /\ pcProcesses # <<>> =>
                      (~got'[p].err /\ got'[p].processes = pcProcesses)]_vars


\* ---------------------------------------------------------------------
\* A step of ProcessCache.Invalidate: no caller moves, and the record of
\* the TTL window is reset.
InvalidateReturns ==
    /\ UNCHANGED <<procVars, pcProcesses, now, envVars>>
    /\ winStart' = -1
    /\ winProbes' = 0
    /\ <<winStart, winProbes, pcLastUpdate>>'
           # <<winStart, winProbes, pcLastUpdate>>

\* Caller p is inside ProcessCache.Get.
InGet(p) ==
    /\ pc[p] \in {"build", "refresh"}
    /\ res[p].val # Nil
    /\ res[p].val[1].type = "process"
    /\ res[p].val[1].processIdentifier # Nil
    /\ res[p].val[1].processIdentifier[1].workdir # EmptyStr

\* Get of caller p returns the list of the cache without running the probe.
ReturnsCached(p) ==
    InGet(p) /\ pc'[p] = "done" /\ ~got'[p].probed

\* C25: when Invalidate returns, the cache is not fresh, whatever the time
\* of the last refresh was, and it stays so until a probe succeeds; and Get
\* returns the list of the cache without running the probe only when the
\* cache is fresh. So the Get after Invalidate runs the probe before it
\* returns.
C25Theorem ==
    [][/\ InvalidateReturns => (~Fresh' /\ pcLastUpdate' = 0)
       /\ (pcLastUpdate = 0 /\ pcLastUpdate' # 0) =>
              \E p \in Procs : InGet(p) /\ pc'[p] = "done" /\ got'[p].probed
       /\ \A p \in Procs : ReturnsCached(p) => (Fresh /\ pcLastUpdate # 0)]_vars

\* Two calls of Get at the first instant of the model each ran the probe
\* and each returned a list with elements: after the first, the cache was
\* fresh and its TTL cannot have expired, so the second ran the probe
\* because Invalidate ran in between.
C25Witness ==
    /\ now = ProcessCacheTTL
    /\ \E p \in Procs, q \in Procs :
           /\ p # q
           /\ pc[p] = "done" /\ pc[q] = "done"
           /\ got[p].probed /\ ~got[p].err /\ got[p].processes # <<>>
           /\ got[q].probed /\ ~got[q].err /\ got[q].processes # <<>>


\* ---------------------------------------------------------------------
\* The end of DiscoverLocalProcesses called on its own: the listening
\* sockets left after the filter of system processes, in the order the
\* probe reported them; then the filter of child processes and the
\* deduplication by pid.
MaxSockets == 3
SocketPids == {21, 22, 23}
\* Process 22 is a child of process 21; the others are children of init.
PPIDOf(pid) == IF pid = 22 THEN 21 ELSE 1
BindAddrs == {"0.0.0.0", "[::]", "127.0.0.1"}
Sockets ==
    [pid : SocketPids, port : {3000, 3001}, bindAddr : BindAddrs]

\* existingIsPublic, newIsPublic
IsPublic(p) == p.bindAddr \in {"0.0.0.0", "*", "[::]"}

\* Variant: the lower port wins, whatever the bind address.
ReplacesLowerPort(p, existing) == p.port < existing.port
\* The record p replaces the record kept so far for its pid.
Replaces(p, existing) ==
    \/ IsPublic(p) /\ ~IsPublic(existing)
    \/ ~(IsPublic(p) /\ ~IsPublic(existing))
       /\ IsPublic(existing) = IsPublic(p) /\ p.port < existing.port

\* rootProcesses: the records whose parent has no record in the list.
RootProcesses(filtered) ==
    LET pidSet == {filtered[i].pid : i \in 1..Len(filtered)}
    IN  SelectSeq(filtered, LAMBDA p : PPIDOf(p.pid) \notin pidSet)

\* pidToProcess after the loop over rootProcesses from index i on.
RECURSIVE PidToProcessFrom(_, _, _)
PidToProcessFrom(roots, i, pidToProcess) ==
    IF i > Len(roots) THEN pidToProcess
    ELSE LET p == roots[i]
             existing == pidToProcess[p.pid]
         IN  PidToProcessFrom(roots, i + 1,
                 IF existing = Nil \/ Replaces(p, existing[1])
                 THEN [pidToProcess EXCEPT ![p.pid] = Some(p)]
                 ELSE pidToProcess)

\* The records of pidToProcess after the loop.
Deduplicated(filtered) ==
    LET pidToProcess ==
            PidToProcessFrom(RootProcesses(filtered), 1,
                             [pid \in SocketPids |-> Nil])
    IN  {pidToProcess[pid][1] :
             pid \in {q \in SocketPids : pidToProcess[q] # Nil}}

\* The sequences that list each element of a set once: the orders in which
\* the range over the map can visit it.
OrdersOf(set) ==
    {seq \in [1..Cardinality(set) -> set] :
         \A i, j \in 1..Cardinality(set) : i # j => seq[i] # seq[j]}

InitSockets ==
    /\ Provisioned
    /\ QuietEnv
    /\ rebind = NoRebind /\ ws = NoWs /\ served = NoTs /\ inbound = NoInbound
    /\ peers = NoPeers /\ tsConfig = NoTsConfig
    /\ \E filtered \in SeqsUpTo(Sockets, MaxSockets) :
           call = [fn |-> "DiscoverLocalProcesses", args |-> <<filtered>>,
                   out |-> Nil]

CallDiscoverLocalProcesses ==
    /\ call.fn = "DiscoverLocalProcesses"
    /\ call.out = Nil
    /\ \E deduplicated \in OrdersOf(Deduplicated(call.args[1])) :
           call' = [call EXCEPT !.out = Some(deduplicated)]
    /\ UNCHANGED <<goVars, rebind, ws, served, inbound, peers, tsConfig>>

NextSockets == CallDiscoverLocalProcesses

SpecSockets == InitSockets /\ [][NextSockets]_vars

\* What the rest of the program reads of a record: the bind address only
\* as wildcard or not.
Visible(p) == [pid |-> p.pid, port |-> p.port, public |-> IsPublic(p)]

\* The reorderings of a list.
Reordered(seq) ==
    {[i \in 1..Len(seq) |-> seq[f[i]]] : f \in Permutations(1..Len(seq))}

\* C26: the list DiscoverLocalProcesses returns has at most one record per
\* pid; the record kept for a pid is one of the records of that pid, is
\* wildcard-bound if any record of the pid is, and has the lowest port of
\* the records of the pid with its bind type; and the pid, port and bind
\* type of the kept records are the same for every order of the reported
\* sockets.
C26Theorem ==
    (call.fn = "DiscoverLocalProcesses" /\ call.out # Nil) =>
        LET filtered == call.args[1]
            out == call.out[1]
            roots == RootProcesses(filtered)
            rootSet == {roots[i] : i \in 1..Len(roots)}
            kept == {out[i] : i \in 1..Len(out)}
        IN  /\ \A i, j \in 1..Len(out) : i # j => out[i].pid # out[j].pid
            /\ {p.pid : p \in kept} = {p.pid : p \in rootSet}
            /\ \A k \in kept :
                   /\ k \in rootSet
                   /\ \A p \in rootSet :
                          p.pid = k.pid =>
                              /\ IsPublic(p) => IsPublic(k)
                              /\ IsPublic(p) = IsPublic(k) => k.port <= p.port
            /\ \A other \in Reordered(filtered) :
                   {Visible(p) : p \in Deduplicated(other)}
                       = {Visible(p) : p \in kept}

\* A process that listens on a loopback address with the lower port and on
\* a wildcard address with the higher port, reported in this order, is
\* listed with the wildcard socket; another process is listed too.
C26Witness ==
    /\ call.fn = "DiscoverLocalProcesses"
    /\ call.out # Nil
    /\ call.args[1] =
           << [pid |-> 21, port |-> 3000, bindAddr |-> "127.0.0.1"],
              [pid |-> 23, port |-> 3001, bindAddr |-> "127.0.0.1"],
              [pid |-> 21, port |-> 3001, bindAddr |-> "[::]"] >>
    /\ Len(call.out[1]) = 2
    /\ \E i \in 1..2 :
           call.out[1][i] = [pid |-> 21, port |-> 3001, bindAddr |-> "[::]"]


\* ---------------------------------------------------------------------
\* generateTraefikConfig called on its own: the mappings loadMappings
\* returns, as the entries of the object in insertion order, and the answer
\* of getContainerIp.
MaxStored == 3
\* Keys of the store, "." and ":" being tokens of their own.
StoredKeys ==
    { <<"app", ".", "localhost">>, <<"app", "-", "localhost">>,
      <<"app", ".", "localhost", ":", "api">>,
      <<"app", ".", "localhost", "-", "api">>,
      <<"fallback", ":", "resolver">>, <<"fallback", ".", "resolver">> }
StoredMappings ==
    { tsManualMapping([type |-> "process", target |-> "localhost",
                       port |-> 3000]),
      tsManualMapping([type |-> "docker", target |-> "app-web",
                       port |-> 80]) }
\* Object.entries(mappings): each key once.
StoredEntries ==
    {entries \in SeqsUpTo(StoredKeys \X StoredMappings, MaxStored) :
         \A i, j \in 1..Len(entries) :
             i # j => entries[i][1] # entries[j][1]}

\* hostname.replace(/[.:]/g, "-")
hostnameToServiceName(hostname) ==
    [i \in 1..Len(hostname) |->
        IF hostname[i] \in {".", ":"} THEN "-" ELSE hostname[i]]

\* Variant: every key is a hostname.
isValidHostnameAny(hostname) == TRUE
\* !hostname.includes(":")
isValidHostname(hostname) == ~Contains(hostname, <<":">>)

\* buildTargetUrl: host and port of the URL.
buildTargetUrl(mapping, ip) ==
    IF mapping.type = "process" THEN <<"127.0.0.1", mapping.port>>
    ELSE IF ip = "" THEN <<mapping.target, mapping.port>>
    ELSE <<ip, mapping.port>>

FallbackName == <<"fallback", "-", "resolver">>
FallbackRouter ==
    [rule |-> <<"HostRegexp", <<".+\\.localhost">>>>,
     service |-> FallbackName, priority |-> Some(1)]
FallbackService == <<"127.0.0.1", 3001>>

\* routers and services after the loop over the entries from index i on,
\* as functions on the names assigned so far.
RECURSIVE TraefikFrom(_, _, _, _)
TraefikFrom(entries, ip, i, config) ==
    IF i > Len(entries) THEN config
    ELSE LET hostname == entries[i][1]
             mapping == entries[i][2]
             serviceName == hostnameToServiceName(hostname)
             router == [rule |-> <<"Host", hostname>>,
                        service |-> serviceName, priority |-> Nil]
         IN  TraefikFrom(entries, ip, i + 1,
                 IF ~isValidHostname(hostname) THEN config
                 ELSE [routers |->
                           [n \in DOMAIN config.routers \cup {serviceName} |->
                               IF n = serviceName THEN router
                               ELSE config.routers[n]],
                       services |->
                           [n \in DOMAIN config.services \cup {serviceName} |->
                               IF n = serviceName
                               THEN buildTargetUrl(mapping, ip)
                               ELSE config.services[n]]])

generateTraefikConfig(entries, ip) ==
    LET config == TraefikFrom(entries, ip, 1,
                      [routers |-> <<>>, services |-> <<>>])
    IN  [routers |->
             [n \in DOMAIN config.routers \cup {FallbackName} |->
                 IF n = FallbackName THEN FallbackRouter
                 ELSE config.routers[n]],
         services |->
             [n \in DOMAIN config.services \cup {FallbackName} |->
                 IF n = FallbackName THEN FallbackService
                 ELSE config.services[n]]]

InitTraefik ==
    /\ Provisioned
    /\ QuietEnv
    /\ rebind = NoRebind /\ ws = NoWs /\ served = NoTs /\ inbound = NoInbound
    /\ peers = NoPeers /\ tsConfig = NoTsConfig
    /\ \E entries \in StoredEntries, ip \in {"", "172.18.0.2"} :
           call = [fn |-> "generateTraefikConfig", args |-> <<entries, ip>>,
                   out |-> Nil]

CallGenerateTraefikConfig ==
    /\ call.fn = "generateTraefikConfig"
    /\ call.out = Nil
    /\ call' = [call EXCEPT
           !.out = Some(generateTraefikConfig(call.args[1], call.args[2]))]
    /\ UNCHANGED <<goVars, rebind, ws, served, inbound, peers, tsConfig>>

NextTraefik == CallGenerateTraefikConfig

SpecTraefik == InitTraefik /\ [][NextTraefik]_vars

\* C27: whatever the store holds, every router generateTraefikConfig emits
\* is the fixed fallback router or has the rule Host(k) for a stored key k
\* without ":", and every service it emits is the fallback service or the
\* target of the mapping of such a key; no router has a rule for a key that
\* contains ":".
C27Theorem ==
    (call.fn = "generateTraefikConfig" /\ call.out # Nil) =>
        LET entries == call.args[1]
            ip == call.args[2]
            config == call.out[1]
            plain == {i \in 1..Len(entries) :
                          ~Contains(entries[i][1], <<":">>)}
        IN  /\ DOMAIN config.routers = DOMAIN config.services
            /\ \A n \in DOMAIN config.routers :
                   \/ /\ n = FallbackName
                      /\ config.routers[n] = FallbackRouter
                      /\ config.services[n] = FallbackService
                   \/ \E i \in plain :
                          /\ config.routers[n].rule = <<"Host", entries[i][1]>>
                          /\ config.routers[n].service = n
                          /\ n = hostnameToServiceName(entries[i][1])
                          /\ config.services[n]
                                 = buildTargetUrl(entries[i][2], ip)
            /\ \A n \in DOMAIN config.routers, i \in 1..Len(entries) :
                   Contains(entries[i][1], <<":">>) =>
                       config.routers[n].rule # <<"Host", entries[i][1]>>

\* The store holds a hostname and a composite key whose service names
\* would be the same; the only routers are that of the hostname and the
\* fallback.
C27Witness ==
    /\ call.fn = "generateTraefikConfig"
    /\ call.out # Nil
    /\ \E i, j \in 1..Len(call.args[1]) :
           /\ call.args[1][i][1] = <<"app", ".", "localhost", ":", "api">>
           /\ call.args[1][j][1] = <<"app", ".", "localhost">>
    /\ Len(call.args[1]) = 2
    /\ DOMAIN call.out[1].routers
           = {<<"app", "-", "localhost">>, FallbackName}


\* ---------------------------------------------------------------------
\* The debug handlers called on their own, twice with the same discovery
\* results, mappings and log, and with two values of the LLM API key ("" is
\* a key that is not set).
ApiKeyValues == {"", "sk-or-1", "sk-or-2"}
DebugFormats == {"json", "html"}
DebugLogs == {<<>>, <<"resolved app.localhost">>}

\* Variant: the snapshot shows the key.
tsDebugEnvShowsKey(key) ==
    [PORT |-> "3000", MODEL |-> "anthropic/claude-haiku-4.5",
     OPENROUTER_API_KEY |-> key]
\* The env part of the snapshot of handleDebugRequest and
\* handleDebugHtmlRequest.
tsDebugEnv(key) ==
    [PORT |-> "3000", MODEL |-> "anthropic/claude-haiku-4.5",
     OPENROUTER_API_KEY |-> IF key # "" THEN "[set]" ELSE "[not set]"]

\* handleDebugRequest and handleDebugHtmlRequest: the snapshot, and the
\* format it is rendered in.
handleDebugRequest(format, processes, store, key) ==
    [format |-> format,
     snapshot |-> [timestamp |-> "2025-01-01T00:00:00Z",
                   localProcesses |-> processes,
                   dockerContainers |-> <<"app-web">>,
                   mappings |-> store,
                   env |-> tsDebugEnv(key)]]

\* handleDebug and handleDebugHTML of a module provisioned with the key:
\* what the answer is built from.
handleDebug(format, processes, store, log, key) ==
    IF format = "html"
    THEN [format |-> format,
          snapshot |-> [processes |-> processes,
                        containers |-> <<"app-web">>,
                        mappings |-> store,
                        logEntries |-> log,
                        model |-> "anthropic/claude-haiku-4.5",
                        cache_file |-> "mappings.json"]]
    ELSE [format |-> format,
          snapshot |-> [mappings |-> store,
                        model |-> "anthropic/claude-haiku-4.5",
                        cache_file |-> "mappings.json"]]

InitDebug ==
    /\ Provisioned
    /\ QuietEnv
    /\ rebind = NoRebind /\ ws = NoWs /\ served = NoTs /\ inbound = NoInbound
    /\ peers = NoPeers /\ tsConfig = NoTsConfig
    /\ \E format \in DebugFormats, processes \in Snapshots,
          keyA \in ApiKeyValues, keyB \in ApiKeyValues :
           \/ \E store \in TsStores :
                  call = [fn |-> "handleDebugRequest",
                          args |-> <<format, processes, store, <<>>,
                                     keyA, keyB>>,
                          out |-> Nil]
           \/ \E store \in LoadedStores, log \in DebugLogs :
                  call = [fn |-> "handleDebug",
                          args |-> <<format, processes, store, log,
                                     keyA, keyB>>,
                          out |-> Nil]

CallHandleDebugRequest ==
    /\ call.fn = "handleDebugRequest"
    /\ call.out = Nil
    /\ call' = [call EXCEPT !.out =
           Some(<<handleDebugRequest(call.args[1], call.args[2],
                                     call.args[3], call.args[5]),
                  handleDebugRequest(call.args[1], call.args[2],
                                     call.args[3], call.args[6])>>)]
    /\ UNCHANGED <<goVars, rebind, ws, served, inbound, peers, tsConfig>>

CallHandleDebug ==
    /\ call.fn = "handleDebug"
    /\ call.out = Nil
    /\ call' = [call EXCEPT !.out =
           Some(<<handleDebug(call.args[1], call.args[2], call.args[3],
                              call.args[4], call.args[5]),
                  handleDebug(call.args[1], call.args[2], call.args[3],
                              call.args[4], call.args[6])>>)]
    /\ UNCHANGED <<goVars, rebind, ws, served, inbound, peers, tsConfig>>

NextDebug == CallHandleDebugRequest \/ CallHandleDebug

SpecDebug == InitDebug /\ [][NextDebug]_vars

\* C28: two runs of a debug handler (JSON or HTML, either server) that
\* differ only in the value of a set API key answer with the same
\* snapshot; what the snapshot of the TypeScript server says about the key
\* is "[set]" or "[not set]".
C28Theorem ==
    (call.fn \in {"handleDebugRequest", "handleDebug"} /\ call.out # Nil) =>
        /\ (call.args[5] # "" /\ call.args[6] # "") =>
               call.out[1][1] = call.out[1][2]
        /\ call.fn = "handleDebugRequest" =>
               \A i \in 1..2 :
                   call.out[1][i].snapshot.env.OPENROUTER_API_KEY
                       = IF call.args[4 + i] # "" THEN "[set]"
                         ELSE "[not set]"

\* The HTML page of the TypeScript server was rendered for two different
\* keys.
C28Witness ==
    /\ call.fn = "handleDebugRequest"
    /\ call.out # Nil
    /\ call.args[1] = "html"
    /\ call.args[5] = "sk-or-1"
    /\ call.args[6] = "sk-or-2"
    /\ call.out[1][1].snapshot.env.OPENROUTER_API_KEY = "[set]"


\* ---------------------------------------------------------------------
\* The pairs of a query other than force and prompt, by name and value.
OtherPairs(query) ==
    LET kept == SelectSeq(query,
                          LAMBDA pair : pair.name \notin {"force", "prompt"})
    IN  [i \in 1..Len(kept) |->
            [name |-> kept[i].name, value |-> kept[i].value]]

\* The mapping stored under key was written by a resolver.
TsResolved(store, key) ==
    store[key] # Nil /\ store[key][1].llmReason # "Manually edited"

\* The middleware handles the request it follows as a second-level proxy
\* request; the TypeScript server does.
InboundProxied ==
    /\ inbound.proc # 0
    /\ inbound.handler = "proxy"
    /\ proxyService(inbound.path) # EmptyStr
ServedProxied ==
    /\ served.stage \notin {"none", "received"}
    /\ served.handler = "proxy"

\* C29: a request /_proxy/<service>/<rest> for the origin host H is looked
\* up and resolved under the key H:<service>, the mapping of H is not
\* written, and the request is forwarded with the path /<rest> ("/"
\* without <rest>) and with its pairs other than force and prompt, in their
\* order.
C29Claim ==
    /\ InboundProxied =>
           /\ req[inbound.proc].key
                  = CompositeKey(inbound.hostname, proxyService(inbound.path))
           /\ mappings[<<inbound.hostname>>]
                  = inbound.before[<<inbound.hostname>>]
           /\ resolveCalls[<<inbound.hostname>>] = 0
           /\ inbound.fwdPath = proxyRemainingPath(inbound.path)
    /\ ServedProxied =>
           /\ served.key = tsCacheKey(served.hostname[1],
                                      proxyService(served.path))
           /\ ~TsResolved(served.store, served.hostname[1])
           /\ served.sent # Nil =>
                  /\ served.sent[1].path = proxyRemainingPath(served.path)
                  /\ OtherPairs(served.sent[1].query)
                         = OtherPairs(served.query)


\* ---------------------------------------------------------------------
\* NumPeers requests for one hostname arrive at the TypeScript server at
\* the same time. handleRequest runs to its next await without
\* interruption: the actions are the parts between the awaits of the normal
\* path.
NumPeers == 3
Peers == 1..NumPeers
PeerWaiting == [stage |-> "lookup", mapping |-> Nil, status |-> 0]

InitPeers ==
    /\ Provisioned
    /\ QuietEnv
    /\ rebind = NoRebind /\ ws = NoWs /\ served = NoTs /\ inbound = NoInbound
    /\ call = NoCall /\ tsConfig = NoTsConfig
    /\ \E store \in {Nil, Some(tsManualMapping([type |-> "process",
                                                 target |-> "localhost",
                                                 port |-> 3000]))} :
           peers = [cold |-> store = Nil, store |-> store,
                    handlers |-> [i \in Peers |-> PeerWaiting],
                    resolverCalls |-> 0]

PeerFrame == UNCHANGED <<goVars, rebind, ws, served, inbound, call, tsConfig>>

\* await getMapping(hostname): a mapping found is used.
PeerGetMapping(i) ==
    /\ peers.handlers # <<>>
    /\ peers.handlers[i].stage = "lookup"
    /\ peers' = [peers EXCEPT !.handlers[i] =
           IF peers.store = Nil
           THEN [@ EXCEPT !.stage = "resolve"]
           ELSE [@ EXCEPT !.stage = "build", !.mapping = peers.store]]
    /\ PeerFrame

\* await resolveTarget(hostname, userPrompt), then await setMapping; a
\* resolver that throws is answered 502.
PeerResolve(i) ==
    /\ peers.handlers # <<>>
    /\ peers.handlers[i].stage = "resolve"
    /\ \/ \E result \in Decisions :
            peers' = [peers EXCEPT
                         !.handlers[i].stage = "build",
                         !.handlers[i].mapping = Some(tsMappingOf(result)),
                         !.store = Some(tsMappingOf(result)),
                         !.resolverCalls = @ + 1]
       \/ peers' = [peers EXCEPT
                       !.handlers[i].stage = "answered",
                       !.handlers[i].status = StatusBadGateway,
                       !.resolverCalls = @ + 1]
    /\ PeerFrame

\* buildTargetUrl and proxyRequest with the mapping the handler holds.
PeerSend(i) ==
    /\ peers.handlers # <<>>
    /\ peers.handlers[i].stage = "build"
    /\ peers' = [peers EXCEPT !.handlers[i].stage = "answered",
                              !.handlers[i].status = StatusOK]
    /\ PeerFrame

NextPeers ==
    \E i \in Peers :
        \/ PeerGetMapping(i)
        \/ PeerResolve(i)
        \/ PeerSend(i)

SpecPeers == InitPeers /\ [][NextPeers]_vars

\* C30: requests that arrive together for a hostname with no stored
\* mapping cause, when no call of the resolver fails, one call of the
\* resolver at most, and those that are routed are routed with the same
\* mapping.
C30Claim ==
    (/\ peers.handlers # <<>>
     /\ peers.cold
     /\ \A i \in Peers : peers.handlers[i].status # StatusBadGateway) =>
        /\ peers.resolverCalls <= 1
        /\ \A i, j \in Peers :
               (peers.handlers[i].status = StatusOK
                    /\ peers.handlers[j].status = StatusOK) =>
                   peers.handlers[i].mapping = peers.handlers[j].mapping


\* ---------------------------------------------------------------------
\* Handler p has got the result of resolveGroup.Do.
DoHasReturned(p) ==
    /\ req[p].kind \in {"route", "proxy"}
    /\ pc[p] \in {"build", "refresh", "done"}
    /\ res[p].src # "cache"

\* Handler p enters resolveGroup.Do in this step.
EntersDo(p) == pc[p] = "do" /\ pc'[p] # "do"

\* C31: a call of resolveGroup.Do that has returned, with an error or not,
\* is no longer registered for its key; a handler that enters Do for a key
\* with no call registered does not wait: it runs the function itself and,
\* unless it finds a mapping stored and is not forced, starts a new
\* resolver call; and the result of a handler that did not wait is set by
\* its own steps only, so it is the outcome of its own call.
C31Theorem ==
    /\ [](\A p \in Procs : DoHasReturned(p) => flight[req[p].key] # p)
    /\ [][\A p \in Procs :
            /\ (EntersDo(p) /\ flight[req[p].key] = 0) =>
                   /\ flight'[req[p].key] = p
                   /\ waitOn'[p] = 0
                   /\ (mappings[req[p].key] = Nil \/ req[p].force) =>
                          /\ pc'[p] = "resolving"
                          /\ resolveCalls'[req[p].key]
                                 = resolveCalls[req[p].key] + 1
            /\ (waitOn'[p] = 0 /\ res'[p] # res[p]) =>
                   pc[p] \in {"idle", "do", "resolving"}]_vars

\* Two requests for the host key, neither forced, the third handler idle:
\* one ran a resolver call that failed and was answered 502, the other ran
\* a resolver call of its own that answered, and holds its mapping. The
\* second cannot have run first, or the first would have found its mapping.
C31Witness ==
    \E p \in Procs, q \in Procs :
        /\ p # q
        /\ \A r \in Procs \ {p, q} : pc[r] = "idle"
        /\ req[p].kind = "route" /\ req[q].kind = "route"
        /\ ~req[p].force /\ ~req[q].force
        /\ pc[p] = "done" /\ waitOn[p] = 0
        /\ res[p].src = "resolver" /\ res[p].err # NoErr
        /\ resp[p].status = StatusBadGateway
        /\ waitOn[q] = 0
        /\ DoHasReturned(q)
        /\ res[q].src = "resolver" /\ res[q].err = NoErr
        /\ resolveCalls[HostKey] = 2


\* ---------------------------------------------------------------------
\* The key a request is looked up under, for every pair of Host headers
\* written in upper or lower case, with or without a port.
CaseNames == {"app", "App", "APP"}
CaseSuffixes == {".localhost", ".LOCALHOST"}
CaseHeaders ==
    {Some(<<n, s>>) : n \in CaseNames, s \in CaseSuffixes}
    \cup {Some(<<n, s, ":", "8443">>) : n \in CaseNames, s \in CaseSuffixes}

\* strings.ToLower, String.prototype.toLowerCase
ToLowerToken(t) ==
    CASE t \in {"App", "APP"} -> "app"
      [] t = ".LOCALHOST" -> ".localhost"
      [] OTHER -> t
ToLower(s) == [i \in 1..Len(s) |-> ToLowerToken(s[i])]

InitCase ==
    /\ Provisioned
    /\ QuietEnv
    /\ rebind = NoRebind /\ ws = NoWs /\ served = NoTs /\ inbound = NoInbound
    /\ peers = NoPeers /\ tsConfig = NoTsConfig
    /\ \E a \in CaseHeaders, b \in CaseHeaders,
          fn \in {"ServeHTTP", "handleRequest"} :
           call = [fn |-> fn, args |-> <<a, b>>, out |-> Nil]

\* ServeHTTP up to its lookup: the hostname extractHostname returns is the
\* key of m.cache.Get and of m.resolveGroup.Do.
ServeHTTPKey(host) ==
    LET hostname == extractHostname(host)
    IN  [store |-> <<hostname>>, flight |-> <<hostname>>]

\* handleRequest up to its lookup: the hostname extractHostname returns is
\* the argument of getMapping; the server has no single-flight group.
handleRequestKey(host) ==
    LET hostname == tsExtractHostname(host)
    IN  [store |-> hostname, flight |-> hostname]

CallServeHTTPKey ==
    /\ call.fn = "ServeHTTP"
    /\ call.out = Nil
    /\ call' = [call EXCEPT
           !.out = Some(<<ServeHTTPKey(call.args[1]),
                          ServeHTTPKey(call.args[2])>>)]
    /\ UNCHANGED <<goVars, rebind, ws, served, inbound, peers, tsConfig>>

CallHandleRequestKey ==
    /\ call.fn = "handleRequest"
    /\ call.out = Nil
    /\ call' = [call EXCEPT
           !.out = Some(<<handleRequestKey(call.args[1]),
                          handleRequestKey(call.args[2])>>)]
    /\ UNCHANGED <<goVars, rebind, ws, served, inbound, peers, tsConfig>>

NextCase == CallServeHTTPKey \/ CallHandleRequestKey

SpecCase == InitCase /\ [][NextCase]_vars

\* Two Host headers that differ only in letter case.
DifferInCaseOnly(a, b) == a # b /\ ToLower(a[1]) = ToLower(b[1])

\* C32: two requests whose Host headers differ only in letter case are
\* looked up under the same store key and the same single-flight key.
C32Claim ==
    (/\ call.fn \in {"ServeHTTP", "handleRequest"} /\ call.out # Nil
     /\ DifferInCaseOnly(call.args[1], call.args[2]))
        => call.out[1][1] = call.out[1][2]

\* What the code does instead: the key is the header without its port, in
\* the letter case it was sent in.
KeyKeepsCase ==
    (call.fn \in {"ServeHTTP", "handleRequest"} /\ call.out # Nil)
        => \A i \in 1..2 :
               call.out[1][i].store[Len(call.out[1][i].store)]
                   = SubSeq(call.args[i][1], 1, 2)

\* ---------------------------------------------------------------------
\* The handler's own function runs in this step: it enters Do and no call
\* is registered for its key.
RunsOwnFunction(p) == EntersDo(p) /\ flight[req[p].key] = 0
\* A handler is in Do only after its first lookup missed or was skipped;
\* the store holds a mapping for its key now.
PlacedSinceMiss(p) == ~req[p].force /\ mappings[req[p].key] # Nil

\* C33: when the function of a non-forced request runs and the store holds
\* a mapping for the request's key (placed after the request's first lookup
\* missed), the function returns the stored mapping and no resolver call is
\* made; the handler keeps that mapping as the result of its lookup.
C33Theorem ==
    /\ [][\A p \in Procs :
            (RunsOwnFunction(p) /\ PlacedSinceMiss(p)) =>
                /\ res'[p] = [val |-> mappings[req[p].key], err |-> NoErr,
                              src |-> "recheck"]
                /\ resolveCalls' = resolveCalls
                /\ pc'[p] = "return"]_vars
    /\ [][\A p \in Procs :
            res[p].src = "recheck" =>
                /\ res'[p] = res[p]
                /\ pc'[p] # "resolving"]_vars
\* A request that missed, then found the mapping another request's resolver
\* call had stored in the meantime, and was answered from it.
C33Witness ==
    \E p, q \in Procs :
        /\ p # q
        /\ req[p].kind = "route" /\ ~req[p].force
        /\ res[p].src = "recheck" /\ pc[p] = "done"
        /\ resp[p].upstream # Nil
        /\ req[q].kind = "route" /\ res[q].src = "resolver"
        /\ res[q].val = res[p].val
        /\ resolveCalls[HostKey] = 1

\* ---------------------------------------------------------------------
\* A PUT or DELETE of handler q for the key of handler p's resolver call
\* wrote the store while that call was running and has been answered 200;
\* nothing has written the key since.
ManualDuringCall(p, q) ==
    /\ req[q].kind \in {"put", "delete"}
    /\ req[q].key = req[p].key
    /\ pc[q] = "done" /\ resp[q].status = StatusOK
    /\ resp[q].seen = p
    /\ lastWriter[req[p].key] = q
\* The resolver call of handler p returns in this step.
ResolverReturns(p) == pc[p] = "resolving" /\ pc'[p] # "resolving"

\* C34: when a resolver call for a key returns after a PUT or DELETE for
\* the key was written and answered during the call, the store still holds
\* what the PUT or DELETE left: the manual mapping, or no mapping.
C34Claim ==
    [][\A p, q \in Procs :
          (ResolverReturns(p) /\ ManualDuringCall(p, q)) =>
              mappings'[req[p].key] = mappings[req[p].key]]_vars

\* What the code does instead: a resolver call that returns a mapping
\* stores it whatever the store holds, and one that fails stores nothing.
ResolverResultStored ==
    [][\A p \in Procs :
          ResolverReturns(p) =>
              IF res'[p].err = NoErr
              THEN mappings'[req[p].key] # Nil
                   /\ mappings'[req[p].key] = res'[p].val
              ELSE mappings' = mappings]_vars

\* ---------------------------------------------------------------------
\* No Save has returned an error.
SavesSucceed == \A p \in Procs : saveErr[p] = NoErr
\* The mappings file does not hold the start of one serialization followed
\* by the tail of another.
FileNotMixed == fsFile # 0 => inode[fsFile].state # "mixed"

\* C35: on a filesystem without errors, Saves that run concurrently all
\* return no error, and the mappings file never holds content mixed from
\* two of them.
C35Claim == ~diskFails => (SavesSucceed /\ FileNotMixed)

\* ---------------------------------------------------------------------
\* The resolver server of the Traefik mode and config.ts: NumTasks requests
\* served concurrently. JavaScript runs one continuation at a time, so a
\* step is the code between two awaits.
NumTasks == 2
Tasks == 1..NumTasks
WebHost == <<"web", ".localhost">>
StoreHosts == {OriginHost, WebHost}
\* The object mappingsCache refers to when the server starts warm; the
\* object request t loads has number t.
WarmObject == NumTasks + 1
ObjectIds == 1..WarmObject
EmptyMap == [h \in StoreHosts |-> Nil]
\* What the body of a PUT names, and what resolveTarget suggests and the
\* form of POST /_confirm carries.
PutMappings ==
    { [type |-> "process", target |-> <<"localhost">>, port |-> 3000] }
ConfirmedMappings ==
    { [type |-> "docker", target |-> <<"web">>, port |-> 80] }
\* The fields of the form of POST /_confirm; port is what parseInt returns,
\* 0 standing for NaN as well.
ConfirmForms ==
    {[hostname |-> h, type |-> m.type, target |-> m.target, port |-> m.port] :
        h \in StoreHosts, m \in ConfirmedMappings}
    \cup {[hostname |-> OriginHost, type |-> "process",
           target |-> <<"localhost">>, port |-> 0]}
FallbackHosts ==
    {Nil, Some(<<"resolver", ":", "3000">>),
     Some(OriginHost), Some(WebHost \o <<":", "8080">>)}
TaskIdle ==
    [op |-> "idle", host |-> EmptyStr, mapping |-> Nil, pc |-> "idle",
     ref |-> 0, data |-> Nil, status |-> 0, overlap |-> FALSE]

InitStore ==
    /\ Provisioned
    /\ QuietEnv
    /\ rebind = NoRebind /\ ws = NoWs /\ served = NoTs /\ inbound = NoInbound
    /\ call = NoCall /\ peers = NoPeers
    /\ \E file \in {Nil, Some(EmptyMap),
                    Some([EmptyMap EXCEPT ![OriginHost] =
                             Some([type |-> "process",
                                   target |-> <<"localhost">>,
                                   port |-> 5173])])},
          warm \in BOOLEAN :
           tsConfig =
               [mappingsCache |-> IF warm THEN WarmObject ELSE 0,
                objects |-> [i \in ObjectIds |->
                                IF warm /\ i = WarmObject
                                THEN IF file = Nil THEN EmptyMap ELSE file[1]
                                ELSE EmptyMap],
                file |-> file,
                tmp |-> Nil,
                tasks |-> [t \in Tasks |-> TaskIdle]]

StoreFrame == UNCHANGED <<goVars, rebind, ws, served, inbound, call, peers>>
\* An object that neither mappingsCache nor a request refers to is
\* garbage; a request that has been answered holds no object.
Collect(c) ==
    LET tasks == [t \in Tasks |->
                     IF c.tasks[t].pc = "done"
                     THEN [c.tasks[t] EXCEPT !.ref = 0, !.data = Nil]
                     ELSE c.tasks[t]]
        live == {c.mappingsCache} \cup {tasks[t].ref : t \in Tasks}
    IN  [c EXCEPT !.tasks = tasks,
                  !.objects = [i \in ObjectIds |->
                                  IF i \in live THEN c.objects[i]
                                  ELSE EmptyMap]]
TaskInProgress(t) == tsConfig.tasks[t].pc \notin {"idle", "done"}

\* A request arrives while others are being served: all of them overlap.
Arrives(t, task) ==
    LET others == {u \in Tasks : TaskInProgress(u)}
    IN  [u \in Tasks |->
            IF u = t THEN [task EXCEPT !.overlap = others # {}]
            ELSE IF u \in others
            THEN [tsConfig.tasks[u] EXCEPT !.overlap = TRUE]
            ELSE tsConfig.tasks[u]]
Answered(status) == [TaskIdle EXCEPT !.pc = "done", !.status = status]

\* handleRequest of the resolver server up to its first await: the routes
\* that use the mappings. PUT and DELETE take the hostname from the path,
\* POST /_confirm takes the fields of the form, any other request is
\* resolved for its Host header; resolveTarget throws at once if the API
\* key is not set, else it loads the mappings for its prompt.
StoreHandleRequest(t) ==
    /\ tsConfig.tasks[t].pc = "idle"
    /\ \E task \in
           {[TaskIdle EXCEPT !.op = "delete", !.host = h, !.pc = "load"] :
               h \in StoreHosts}
           \cup {[TaskIdle EXCEPT !.op = "put", !.host = h,
                                  !.mapping = Some(m), !.pc = "load"] :
                    h \in StoreHosts, m \in PutMappings}
           \cup {IF f.hostname = EmptyStr \/ f.port = 0
                 THEN [Answered(StatusBadRequest) EXCEPT !.op = "confirm"]
                 ELSE [TaskIdle EXCEPT
                          !.op = "confirm", !.host = f.hostname,
                          !.mapping = Some([type |-> f.type,
                                            target |-> f.target,
                                            port |-> f.port]),
                          !.pc = "load"] : f \in ConfirmForms}
           \cup {IF tsExtractHostname(h) = Nil
                 THEN [Answered(StatusBadRequest) EXCEPT !.op = "fallback"]
                 ELSE IF tsExtractHostname(h)[1] \in
                             {<<"resolver">>, <<"localhost">>}
                 THEN [Answered(StatusNotFound) EXCEPT !.op = "fallback"]
                 ELSE IF ~keySet
                 THEN [Answered(StatusInternalServerError) EXCEPT
                          !.op = "fallback"]
                 ELSE [TaskIdle EXCEPT !.op = "fallback",
                                       !.host = tsExtractHostname(h)[1],
                                       !.pc = "load"] :
                    h \in FallbackHosts, keySet \in BOOLEAN} :
           tsConfig' = Collect([tsConfig EXCEPT !.tasks = Arrives(t, task)])
    /\ StoreFrame

\* Where a request goes on when loadMappings has returned.
AfterLoad(op) ==
    CASE op \in {"put", "delete", "confirm"} -> "mutate"
      [] op = "fallback" -> "fetch"
      [] OTHER -> "done"
Loaded(t, object) ==
    [tsConfig.tasks[t] EXCEPT
        !.ref = object,
        !.pc = AfterLoad(tsConfig.tasks[t].op),
        !.status = IF AfterLoad(tsConfig.tasks[t].op) = "done"
                   THEN StatusOK ELSE 0]

\* loadMappings: return mappingsCache if it is set, else ask whether the
\* file exists.
loadMappings(t) ==
    /\ tsConfig.tasks[t].pc = "load"
    /\ tsConfig' =
           IF tsConfig.mappingsCache # 0
           THEN Collect([tsConfig EXCEPT
                            !.tasks[t] = Loaded(t, tsConfig.mappingsCache)])
           ELSE [tsConfig EXCEPT !.tasks[t].pc = "exists"]
    /\ StoreFrame

\* file.exists() answers.
FileExists(t) ==
    /\ tsConfig.tasks[t].pc = "exists"
    /\ tsConfig' = [tsConfig EXCEPT
           !.tasks[t].pc = IF tsConfig.file # Nil THEN "json" ELSE "absent"]
    /\ StoreFrame

\* mappingsCache = await file.json(): a new object with the content of the
\* file.
FileJson(t) ==
    /\ tsConfig.tasks[t].pc = "json"
    /\ tsConfig' = Collect([tsConfig EXCEPT
           !.objects[t] = tsConfig.file[1],
           !.mappingsCache = t,
           !.tasks[t] = Loaded(t, t)])
    /\ StoreFrame

\* mappingsCache = {}
FileAbsent(t) ==
    /\ tsConfig.tasks[t].pc = "absent"
    /\ tsConfig' = Collect([tsConfig EXCEPT
           !.objects[t] = EmptyMap,
           !.mappingsCache = t,
           !.tasks[t] = Loaded(t, t)])
    /\ StoreFrame

\* setMapping and deleteMapping after loadMappings: change the object, and
\* saveMappings up to its first await (mkdir).
setMapping(t) ==
    /\ tsConfig.tasks[t].pc = "mutate"
    /\ LET task == tsConfig.tasks[t]
       IN  tsConfig' = [tsConfig EXCEPT
               !.objects[task.ref][task.host] =
                   IF task.op = "delete" THEN Nil ELSE task.mapping,
               !.tasks[t].pc = "mkdir"]
    /\ StoreFrame

\* saveMappings after mkdir: JSON.stringify(mappings) and the start of
\* Bun.write.
Stringify(t) ==
    /\ tsConfig.tasks[t].pc = "mkdir"
    /\ tsConfig' = [tsConfig EXCEPT
           !.tasks[t].data = Some(tsConfig.objects[tsConfig.tasks[t].ref]),
           !.tasks[t].pc = "write"]
    /\ StoreFrame

\* Bun.write has written the temporary file; mv is started.
Written(t) ==
    /\ tsConfig.tasks[t].pc = "write"
    /\ tsConfig' = [tsConfig EXCEPT
           !.tmp = tsConfig.tasks[t].data,
           !.tasks[t].data = Nil,
           !.tasks[t].pc = "mv"]
    /\ StoreFrame

\* mv <file>.tmp <file> runs; it fails if another mv has moved the
\* temporary file away, and nobody looks at its exit code.
Mv(t) ==
    /\ tsConfig.tasks[t].pc = "mv"
    /\ tsConfig' =
           IF tsConfig.tmp = Nil
           THEN [tsConfig EXCEPT !.tasks[t].pc = "assign"]
           ELSE [tsConfig EXCEPT !.file = tsConfig.tmp, !.tmp = Nil,
                                 !.tasks[t].pc = "assign"]
    /\ StoreFrame

\* mappingsCache = mappings; setMapping returns and the request is
\* answered.
SaveAssign(t) ==
    /\ tsConfig.tasks[t].pc = "assign"
    /\ tsConfig' = Collect([tsConfig EXCEPT
           !.mappingsCache = tsConfig.tasks[t].ref,
           !.tasks[t].pc = "done",
           !.tasks[t].status = StatusOK])
    /\ StoreFrame

\* Variant: the fallback handler stores what resolveTarget returned.
AfterResolveSaves == "mutate"
\* The fallback handler answers with the confirmation page.
AfterResolve == "done"

\* resolveTarget returns a decision, and the fallback handler goes on.
FetchOk(t) ==
    /\ tsConfig.tasks[t].pc = "fetch"
    /\ \E m \in ConfirmedMappings :
           tsConfig' = Collect([tsConfig EXCEPT
               !.tasks[t].mapping = Some(m),
               !.tasks[t].pc = AfterResolve,
               !.tasks[t].status = StatusOK])
    /\ StoreFrame

\* resolveTarget throws: the error page.
FetchFail(t) ==
    /\ tsConfig.tasks[t].pc = "fetch"
    /\ tsConfig' = Collect([tsConfig EXCEPT
           !.tasks[t].pc = "done",
           !.tasks[t].status = StatusInternalServerError])
    /\ StoreFrame

NextStore ==
    \E t \in Tasks :
        \/ StoreHandleRequest(t)
        \/ loadMappings(t)
        \/ FileExists(t)
        \/ FileJson(t)
        \/ FileAbsent(t)
        \/ setMapping(t)
        \/ Stringify(t)
        \/ Written(t)
        \/ Mv(t)
        \/ SaveAssign(t)
        \/ FetchOk(t)
        \/ FetchFail(t)

SpecStore == InitStore /\ [][NextStore]_vars

\* A request that changed the store through setMapping or deleteMapping
\* and has been answered.
StoreWriters == {"put", "delete", "confirm"}
HasWritten(t) ==
    /\ tsConfig.tasks[t].op \in StoreWriters
    /\ tsConfig.tasks[t].pc = "done"
    /\ tsConfig.tasks[t].status = StatusOK
\* The effect of the request on a Mappings object.
EffectIn(t, map) ==
    IF tsConfig.tasks[t].op = "delete"
    THEN map[tsConfig.tasks[t].host] = Nil
    ELSE map[tsConfig.tasks[t].host] = tsConfig.tasks[t].mapping
InMemory(t) ==
    /\ tsConfig.mappingsCache # 0
    /\ EffectIn(t, tsConfig.objects[tsConfig.mappingsCache])
InFile(t) == tsConfig.file # Nil /\ EffectIn(t, tsConfig.file[1])

\* C36: after two setMapping or deleteMapping calls on different hostnames
\* that overlapped in time have both completed, the in-memory map and the
\* mappings file each hold the effect of both calls.
C36Claim ==
    \A t, u \in Tasks :
        (/\ t # u
         /\ HasWritten(t) /\ HasWritten(u)
         /\ tsConfig.tasks[t].overlap /\ tsConfig.tasks[u].overlap
         /\ tsConfig.tasks[t].host # tsConfig.tasks[u].host)
            => /\ InMemory(t) /\ InMemory(u)
               /\ InFile(t) /\ InFile(u)

\* Calls that did not overlap leave both effects in the map and the file.
SequentialKeepsBoth ==
    \A t, u \in Tasks :
        (/\ t # u
         /\ HasWritten(t) /\ HasWritten(u)
         /\ ~tsConfig.tasks[t].overlap /\ ~tsConfig.tasks[u].overlap
         /\ tsConfig.tasks[t].host # tsConfig.tasks[u].host)
            => /\ InMemory(t) /\ InMemory(u)
               /\ InFile(t) /\ InFile(u)

\* ---------------------------------------------------------------------
\* The mappings of a hostname held anywhere: in a Mappings object, in a
\* serialization about to be written, in the temporary file or in the
\* mappings file.
HeldFor(h) ==
    ({tsConfig.objects[i][h] : i \in ObjectIds}
     \cup {tsConfig.tasks[t].data[1][h] :
              t \in {u \in Tasks : tsConfig.tasks[u].data # Nil}}
     \cup (IF tsConfig.tmp = Nil THEN {} ELSE {tsConfig.tmp[1][h]})
     \cup (IF tsConfig.file = Nil THEN {} ELSE {tsConfig.file[1][h]}))
    \ {Nil}
\* A PUT or a POST /_confirm for the hostname that named the mapping and
\* has reached setMapping.
GivenBy(t, h, v) ==
    /\ tsConfig.tasks[t].op \in {"put", "confirm"}
    /\ tsConfig.tasks[t].host = h
    /\ tsConfig.tasks[t].mapping = v
    /\ tsConfig.tasks[t].pc \in {"mkdir", "write", "mv", "assign", "done"}
\* The mappings the file held when the server started.
HeldAtStart(h, v) == h = OriginHost /\ v[1].port = 5173
\* The request moves in this step and is a fallback request.
FallbackStep(t) ==
    /\ tsConfig'.tasks[t].op = "fallback"
    /\ tsConfig'.tasks[t].pc # tsConfig.tasks[t].pc
VisibleFor(c, h) ==
    IF c.mappingsCache = 0 THEN Nil ELSE c.objects[c.mappingsCache][h]
FileFor(c, h) == IF c.file = Nil THEN Nil ELSE c.file[1][h]

FallbackKeepsMemory ==
    [][\A t \in Tasks :
          FallbackStep(t) =>
              \A h \in StoreHosts :
                  tsConfig.mappingsCache # 0 =>
                      VisibleFor(tsConfig', h) = VisibleFor(tsConfig, h)]_vars
ApiWriteOnDebugHost(hostname, path, method) ==
    /\ hostname = DebugHost
    /\ HasPrefix(path, ApiPrefix)
    /\ method \in {"PUT", "DELETE"}
\* The Go middleware has dispatched such a request.
GoApiWriteOnDebugHost ==
    /\ inbound.proc # 0
    /\ ApiWriteOnDebugHost(inbound.hostname, inbound.path, inbound.method)
\* The TypeScript server has answered such a request.
TsApiWriteOnDebugHost ==
    /\ served.stage = "answered"
    /\ served.hostname # Nil
    /\ ApiWriteOnDebugHost(served.hostname[1], served.path, served.method)

\* C37: a PUT or DELETE of /_api/mappings/<host> sent to the debug host is
\* handled by the mapping API, not by the debug handler, and a DELETE
\* leaves the store without a mapping for <host>.
C37Claim ==
    /\ GoApiWriteOnDebugHost =>
           /\ inbound.handler = "api"
           /\ inbound.method = "DELETE" =>
                  mappings[<<TrimSuffixSlash(Tail(inbound.path))>>] = Nil
    /\ TsApiWriteOnDebugHost =>
           /\ served.handler = "api"
           /\ served.method = "DELETE" =>
                  served.store[SubSeq(served.path, Len(ApiPrefix) + 1,
                                      Len(served.path))] = Nil

\* The Go middleware does what the claim says.
GoApiBeforeDebug ==
    GoApiWriteOnDebugHost =>
        /\ inbound.handler = "api"
        /\ inbound.method = "DELETE" =>
               mappings[<<TrimSuffixSlash(Tail(inbound.path))>>] = Nil
\* The TypeScript server answers such a request with the debug snapshot
\* and leaves the store as it was.
TsDebugBeforeApi ==
    TsApiWriteOnDebugHost =>
        /\ served.handler = "debug"
        /\ served.status = StatusOK
        /\ \E store \in TsStores : store = served.store
====
